---- MODULE Spec2Model ----
(***************************************************************************)
(* Retrieval orchestration engine of metabolic_backend:                    *)
(*   analysis/classifier.py, orchestrator/guardrails.py, cache/faq.py and  *)
(*   orchestrator/pipeline.py (RetrievalPipeline).                         *)
(*                                                                         *)
(* Text is a sequence of words; a keyword test `kw in text` is a test on   *)
(* the words that contain the keyword.  Time is counted in whole days.     *)
(***************************************************************************)
EXTENDS Integers, Sequences, FiniteSets, TLC

(* ------------------------------------------------------------------ *)
(* Bounds of the model                                                *)
(* ------------------------------------------------------------------ *)
MaxEvidenceBound == 2
MaxNow == 2
MaxExpected == 2
MaxMergeTotal == 3
MaxCalls == 3
MaxTtl == 1
MaxSets == 2
MaxGets == 2
MaxAnswerLen == 2
MaxDuration == 2
MaxLimit == 2
MaxRawLen == 2
MaxBudget == 2
MaxElapsed == 3
MaxRecordCalls == 3
MaxSnapshots == 2
MaxRetrievals == 2
MaxIndexCalls == 3
MaxPrepLines == 6

(* ------------------------------------------------------------------ *)
(* Program constants                                                  *)
(* ------------------------------------------------------------------ *)
SimilarityThresholdPct == 85
MaxSubquestions == 3

\* answer_override = None
NoOverride == <<>>

(* ------------------------------------------------------------------ *)
(* Words and questions                                                *)
(* ------------------------------------------------------------------ *)
\* "med" contains the escalate keyword, "risk" the caution keyword, "rel" a
\* relationship keyword, "and" is a connector, "how?" ends in a question mark.
Vocab == {"med", "risk", "walk", "rel", "and", "how?"}

EscalateWords == {"med"}
CautionWords == {"risk"}
RelationshipWords == {"rel"}
ConnectorWords == {"and"}
MultiHopWords == {"and", "if"}
QuestionMarkWords == {"how?"}

Range(s) == {s[i] : i \in 1..Len(s)}

SeqsUpTo(S, n) == UNION {[1..k -> S] : k \in 0..n}


ContainsAny(text, words) == \E i \in 1..Len(text) : text[i] \in words

CountIn(text, words) == Cardinality({i \in 1..Len(text) : text[i] \in words})

(* ------------------------------------------------------------------ *)
(* analysis/classifier.py                                             *)
(* ------------------------------------------------------------------ *)
SafetyLevel == {"clear", "caution", "escalate"}

\* _SAFETY_ESCALATE: the escalate-tier regexes that are no keyword, among them
\* one that spans a caution keyword; _SAFETY_CAUTION holds the caution keywords
\* between word boundaries, which match nothing the keywords do not
EscalatePatterns == {<<"pain">>, <<"sugar", "risk">>}

IsSubSeq(g, a) ==
    \E k \in 0..(Len(a) - Len(g)) : \A i \in 1..Len(g) : a[k + i] = g[i]

HitsEscalate(text) ==
    ContainsAny(text, EscalateWords) \/ \E g \in EscalatePatterns : IsSubSeq(g, text)

HitsCaution(text) == ContainsAny(text, CautionWords)

\* the caution tier looked at first
detect_safety_caution_first(text) ==
    IF HitsCaution(text) THEN "caution"
    ELSE IF HitsEscalate(text) THEN "escalate"
    ELSE "clear"

detect_safety(text) ==
    IF HitsEscalate(text) THEN "escalate"
    ELSE IF HitsCaution(text) THEN "caution"
    ELSE "clear"

estimate_complexity(text) ==
    IF ContainsAny(text, QuestionMarkWords) /\ ContainsAny(text, MultiHopWords)
    THEN "multi-hop"
    ELSE IF CountIn(text, QuestionMarkWords) > 1 THEN "compound"
    ELSE IF Len(text) > 30 THEN "compound"
    ELSE "simple"

\* `slow` is the outcome of the latency check: the measured time exceeded the budget.
analyze(question, slow) ==
    [complexity |-> estimate_complexity(question),
     safety |-> IF slow THEN "escalate" ELSE detect_safety(question),
     latency_exceeded |-> slow]

\* _DOMAIN_KEYWORDS, in the dict's order; the first domain with a keyword in the
\* text wins.
DomainKeywords ==
    << [domain |-> "exercise", keywords |-> {"walk"}],
       [domain |-> "medical", keywords |-> {"med"}] >>

detect_domain(text) ==
    LET hits == {i \in 1..Len(DomainKeywords) : ContainsAny(text, DomainKeywords[i].keywords)}
    IN  IF hits = {} THEN "lifestyle"
        ELSE DomainKeywords[CHOOSE i \in hits : \A j \in hits : i <= j].domain

\* the reason each of the three detectors appends
domain_reason(text) ==
    IF \A i \in 1..Len(DomainKeywords) : ~ContainsAny(text, DomainKeywords[i].keywords)
    THEN "Defaulted to lifestyle domain"
    ELSE "Domain keyword match"

complexity_reason(text) ==
    IF ContainsAny(text, QuestionMarkWords) /\ ContainsAny(text, MultiHopWords)
    THEN "Detected multi-hop connectors"
    ELSE IF CountIn(text, QuestionMarkWords) > 1 THEN "Multiple questions detected"
    ELSE IF Len(text) > 30 THEN "Long question assumes compound context"
    ELSE "Classified as simple question"

safety_reason(text) ==
    IF HitsEscalate(text) THEN "Escalate keyword hit"
    ELSE IF HitsCaution(text) THEN "Caution keyword hit"
    ELSE "No safety flags detected"

\* QuestionAnalyzer.__init__: the argument is <<>> for None and <<b>> for a
\* budget of b seconds; `latency_budget or settings.safety_latency_budget`
\* takes the settings' budget when the argument is None or 0.
NoBudget == <<>>

analyzer_latency_budget(latency_budget, safety_latency_budget) ==
    IF latency_budget = NoBudget \/ latency_budget[1] = 0
    THEN safety_latency_budget
    ELSE latency_budget[1]

\* QuestionAnalyzer.analyze with the analyzer's budget (seconds) and the time
\* the three detectors took (milliseconds).
analyze_timed(question, budget, latency_ms) ==
    LET slow == latency_ms > budget * 1000
        a == analyze(question, slow)
        reasons == << domain_reason(question), complexity_reason(question),
                      safety_reason(question) >>
    IN  [domain |-> detect_domain(question),
         complexity |-> a.complexity,
         safety |-> a.safety,
         reasons |-> IF slow THEN Append(reasons, "Latency budget exceeded") ELSE reasons,
         latency_ms |-> latency_ms]

(* ------------------------------------------------------------------ *)
(* orchestrator/guardrails.py                                         *)
(* ------------------------------------------------------------------ *)
OverrideText == <<"consult-physician-override", ".">>
EscalationSentence == <<"consult-physician", ".">>
EscalationSentenceKo == <<"consult-physician-ko", ".">>
\* f"{ESCALATION_SENTENCE_KO} {ESCALATION_SENTENCE}"
EscalationCopy == EscalationSentenceKo \o EscalationSentence
EscalateBannerTitle == <<"escalation-needed">>
EscalateBannerBody == <<"needs-professional-judgement", ".">>
CautionBannerTitle == <<"medical-caution">>
CautionBannerBody == <<"stress-evidence-and-confirmation", ".">>
PiiWords == {"pii"}

\* Every level given the caution envelope.
build_safety_envelope_caution_only(analysis) ==
    [level |-> analysis.safety,
     banner_title |-> CautionBannerTitle, banner_body |-> CautionBannerBody,
     escalation_copy |-> EscalationCopy, answer_override |-> NoOverride]

build_safety_envelope(analysis) ==
    IF analysis.safety = "escalate"
    THEN [level |-> analysis.safety,
          banner_title |-> EscalateBannerTitle, banner_body |-> EscalateBannerBody,
          escalation_copy |-> EscalationCopy, answer_override |-> OverrideText]
    ELSE IF analysis.safety = "caution"
    THEN [level |-> analysis.safety,
          banner_title |-> CautionBannerTitle, banner_body |-> CautionBannerBody,
          escalation_copy |-> EscalationCopy, answer_override |-> NoOverride]
    ELSE [level |-> analysis.safety, banner_title |-> <<>>, banner_body |-> <<>>,
          escalation_copy |-> <<>>, answer_override |-> NoOverride]

scrub_text(value) ==
    [i \in 1..Len(value) |-> IF value[i] \in PiiWords THEN "[REDACTED]" ELSE value[i]]

\* str.strip(): blanks at either end removed.
Blank == " "

RECURSIVE LStrip(_)
LStrip(text) == IF text # <<>> /\ Head(text) = Blank THEN LStrip(Tail(text)) ELSE text

RECURSIVE RStrip(_)
RStrip(text) ==
    IF text # <<>> /\ text[Len(text)] = Blank
    THEN RStrip(SubSeq(text, 1, Len(text) - 1)) ELSE text

Strip(text) == LStrip(RStrip(text))

\* The guidance appended even when the answer already holds it.
append_caution_guidance_always(answer, envelope) ==
    LET guidance == Strip(envelope.escalation_copy) IN
    IF guidance = <<>> THEN answer
    ELSE IF Len(answer) > 0 /\ answer[Len(answer)] = "." THEN answer \o guidance
    ELSE answer \o <<".">> \o guidance

append_caution_guidance(answer, envelope) ==
    LET guidance == Strip(envelope.escalation_copy) IN
    IF guidance = <<>> THEN answer
    ELSE IF IsSubSeq(guidance, answer) THEN answer
    ELSE IF Len(answer) > 0 /\ answer[Len(answer)] = "." THEN answer \o guidance
    ELSE answer \o <<".">> \o guidance

(* ------------------------------------------------------------------ *)
(* cache/faq.py : FAQCache                                            *)
(* A dict is a sequence of entries in insertion order, one per key.   *)
(* The cache object is the record                                     *)
(*   [cache, questions, embeddings, file]; file = NoFile: none yet;   *)
(*   embeddings = <<>>: None.                                         *)
(* ------------------------------------------------------------------ *)
NoFile == <<[q |-> <<>>, answer |-> <<>>, cached_at |-> 0, ttl_days |-> 0]>>

Keys(d) == [i \in 1..Len(d) |-> d[i].q]

HasKey(d, q) == \E i \in 1..Len(d) : d[i].q = q

IndexOf(d, q) == CHOOSE i \in 1..Len(d) : d[i].q = q

DictSet(d, e) ==
    IF HasKey(d, e.q) THEN [d EXCEPT ![IndexOf(d, e.q)] = e] ELSE Append(d, e)

DictDel(d, q) ==
    LET k == IndexOf(d, q) IN
    [i \in 1..(Len(d) - 1) |-> IF i < k THEN d[i] ELSE d[i + 1]]

\* SentenceTransformer.encode: an embedding that depends on the words of the
\* text and not on their order (the indicator vector of its word set).
Encode(text) == Range(text)

\* Cosine similarity of two indicator vectors, |a & b| / sqrt(|a| |b|), kept as
\* the pair (numerator squared, denominator squared).
CosSim(a, b) ==
    [n |-> Cardinality(a \cap b) * Cardinality(a \cap b),
     d |-> Cardinality(a) * Cardinality(b)]

SimGeq(x, y) == x.n * y.d >= y.n * x.d

CosAtLeast(x, pct) == x.n * 10000 >= pct * pct * x.d

\* np.argmax: the first index of the largest similarity.
ArgMax(sims) ==
    CHOOSE i \in 1..Len(sims) :
        /\ \A j \in 1..Len(sims) : SimGeq(sims[i], sims[j])
        /\ \A j \in 1..(i - 1) : ~SimGeq(sims[j], sims[i])

JaccardAtLeast(q_words, c_words, pct) ==
    100 * Cardinality(q_words \cap c_words) >= pct * Cardinality(q_words \cup c_words)

is_valid(cached_data, today) == today - cached_data.cached_at < cached_data.ttl_days

save_cache(c) == [c EXCEPT !.file = c.cache]

load_cache(c, use_st) ==
    IF c.file = NoFile THEN c
    ELSE LET qs == Keys(c.file) IN
         [c EXCEPT !.cache = c.file,
                   !.questions = qs,
                   !.embeddings = IF use_st /\ qs # <<>>
                                  THEN [i \in 1..Len(qs) |-> Encode(qs[i])]
                                  ELSE c.embeddings]

Hit(a) == [kind |-> "hit", answer |-> a]
Miss == [kind |-> "none", answer |-> <<>>]
Raised(e) == [kind |-> e, answer |-> <<>>]

get_with_embeddings(c, question, pct, today) ==
    LET qe == Encode(question)
        sims == [i \in 1..Len(c.embeddings) |-> CosSim(c.embeddings[i], qe)]
        max_idx == ArgMax(sims)
    IN  IF c.embeddings = <<>> THEN [result |-> Raised("TypeError"), c |-> c]
        ELSE IF ~CosAtLeast(sims[max_idx], pct) THEN [result |-> Miss, c |-> c]
        ELSE IF max_idx > Len(c.questions) THEN [result |-> Raised("IndexError"), c |-> c]
        ELSE LET matched == c.questions[max_idx] IN
             IF ~HasKey(c.cache, matched) THEN [result |-> Raised("KeyError"), c |-> c]
             ELSE LET cached_data == c.cache[IndexOf(c.cache, matched)] IN
                  IF is_valid(cached_data, today)
                  THEN [result |-> Hit(cached_data.answer), c |-> c]
                  ELSE [result |-> Miss,
                        c |-> load_cache(save_cache(
                                  [c EXCEPT !.cache = DictDel(c.cache, matched)]), TRUE)]

\* The loop returns at the first entry that is similar enough and valid.  When the
\* first similar entry is expired it is deleted from the dict being iterated and
\* saved; the iterator's next step then raises RuntimeError (dictionary changed
\* size during iteration), also when the deleted entry was the last one.
get_with_string_match(c, question, pct, today) ==
    LET q_words == Range(question)
        similar == {i \in 1..Len(c.cache) :
                       /\ q_words # {}
                       /\ Range(c.cache[i].q) # {}
                       /\ JaccardAtLeast(q_words, Range(c.cache[i].q), pct)}
    IN  IF similar = {} THEN [result |-> Miss, c |-> c]
        ELSE LET first == CHOOSE i \in similar : \A j \in similar : i <= j IN
             IF is_valid(c.cache[first], today)
             THEN [result |-> Hit(c.cache[first].answer), c |-> c]
             ELSE [result |-> Raised("RuntimeError"),
                   c |-> save_cache([c EXCEPT !.cache = DictDel(c.cache, c.cache[first].q)])]

faq_get(c, use_st, question, pct, today) ==
    IF c.questions = <<>> THEN [result |-> Miss, c |-> c]
    ELSE IF use_st THEN get_with_embeddings(c, question, pct, today)
    ELSE get_with_string_match(c, question, pct, today)

faq_set(c, use_st, question, answer, ttl_days, today) ==
    load_cache(save_cache(
        [c EXCEPT !.cache = DictSet(c.cache,
            [q |-> question, answer |-> answer, cached_at |-> today, ttl_days |-> ttl_days])]),
        use_st)

(* ------------------------------------------------------------------ *)
(* Chunks and the retrievers (retrievers/vector.py, retrievers/graph.py) *)
(* ------------------------------------------------------------------ *)
ChunkIds == {"c1", "c2"}

\* score = None is has_score = FALSE (the score field is then 0).
Chunk(id, sc, has) == [chunk_id |-> id, score |-> sc, has_score |-> has]

\* Result lists of a retriever's remote or local path within a request: every
\* chunk carries the call's score; remote graph rows need not be sorted.
ResultLists ==
    {<<>>, <<Chunk("c1", 2, TRUE)>>, <<Chunk("c1", 1, TRUE), Chunk("c2", 2, TRUE)>>}

RemoteOutcomes == {"unconfigured", "raises", "rows"}

Take(s, n) == IF Len(s) <= n THEN s ELSE SubSeq(s, 1, n)

\* retrieve / retrieve_async: the remote rows when the remote path is configured,
\* does not raise and returns some; the local fallback otherwise.
vector_retrieve(limit, remote, rows, local) ==
    IF limit <= 0 THEN <<>>
    ELSE IF remote = "rows" /\ rows # <<>> THEN rows
    ELSE Take(local, limit)

graph_retrieve(limit, remote, rows, local) ==
    IF remote = "rows" /\ rows # <<>> THEN rows
    ELSE Take(local, limit)

\* The same calls with the way they end: returning chunks, or raising.
Returns(chunks) == [raised |-> FALSE, chunks |-> chunks]
Raises == [raised |-> TRUE, chunks |-> <<>>]

\* _retrieve_from_database / _search_graphiti: the remote query
remote_query(remote, rows) == IF remote = "raises" THEN Raises ELSE Returns(rows)

\* _retrieve_from_cache: scored[:limit] of the locally scored chunks
retrieve_from_cache(local, limit) == Take(local, limit)

\* retrieve without its try/except: the remote exception reaches the caller.
retrieve_uncaught(limit, remote, rows, local) ==
    IF remote = "unconfigured" THEN Returns(retrieve_from_cache(local, limit))
    ELSE LET results == remote_query(remote, rows) IN
         IF results.raised THEN Raises
         ELSE IF results.chunks # <<>> THEN results
         ELSE Returns(retrieve_from_cache(local, limit))

vector_retrieve_outcome(limit, remote, rows, local) ==
    IF limit <= 0 THEN Returns(<<>>)
    ELSE IF remote = "unconfigured" THEN Returns(retrieve_from_cache(local, limit))
    ELSE LET results == remote_query(remote, rows) IN
         IF ~results.raised /\ results.chunks # <<>> THEN results
         ELSE Returns(retrieve_from_cache(local, limit))

vector_retrieve_async_outcome(limit, remote, rows, local) ==
    IF limit <= 0 THEN Returns(<<>>)
    ELSE IF remote = "unconfigured" THEN Returns(retrieve_from_cache(local, limit))
    ELSE LET results == remote_query(remote, rows) IN
         IF ~results.raised /\ results.chunks # <<>> THEN results
         ELSE Returns(retrieve_from_cache(local, limit))

graph_retrieve_outcome(limit, remote, rows, local) ==
    IF remote = "unconfigured" THEN Returns(retrieve_from_cache(local, limit))
    ELSE LET results == remote_query(remote, rows) IN
         IF ~results.raised /\ results.chunks # <<>> THEN results
         ELSE Returns(retrieve_from_cache(local, limit))

graph_retrieve_async_outcome(limit, remote, rows, local) ==
    IF remote = "unconfigured" THEN Returns(retrieve_from_cache(local, limit))
    ELSE LET results == remote_query(remote, rows) IN
         IF ~results.raised /\ results.chunks # <<>> THEN results
         ELSE Returns(retrieve_from_cache(local, limit))

\* key=lambda item: getattr(item, "score", 0.0) or 0.0
ScoreKey(ch) == IF ch.has_score THEN ch.score ELSE 0

\* The insertion of an ascending sort (reverse=True dropped).
RECURSIVE InsertAsc(_, _)
InsertAsc(sorted, ch) ==
    IF sorted = <<>> THEN <<ch>>
    ELSE IF ScoreKey(Head(sorted)) <= ScoreKey(ch)
         THEN <<Head(sorted)>> \o InsertAsc(Tail(sorted), ch)
         ELSE <<ch>> \o sorted

\* list.sort(key, reverse=True): descending and stable.
RECURSIVE InsertDesc(_, _)
InsertDesc(sorted, ch) ==
    IF sorted = <<>> THEN <<ch>>
    ELSE IF ScoreKey(Head(sorted)) >= ScoreKey(ch)
         THEN <<Head(sorted)>> \o InsertDesc(Tail(sorted), ch)
         ELSE <<ch>> \o sorted

\* No sort at all: the concatenation order is kept.
SortDescSkipped(s) == s

RECURSIVE SortDesc(_)
SortDesc(s) ==
    IF s = <<>> THEN <<>>
    ELSE InsertDesc(SortDesc(SubSeq(s, 1, Len(s) - 1)), s[Len(s)])

\* The dedup loop of the merge and decompose nodes: skip a chunk_id already
\* seen, append, and stop once len(out) >= max_evidence (tested after the append).
RECURSIVE DedupCap(_, _, _, _)
DedupCap(items, seen, out, cap) ==
    IF items = <<>> THEN out
    ELSE IF Head(items).chunk_id \in seen THEN DedupCap(Tail(items), seen, out, cap)
    ELSE IF Len(out) + 1 >= cap THEN Append(out, Head(items))
    ELSE DedupCap(Tail(items), seen \cup {Head(items).chunk_id}, Append(out, Head(items)), cap)

merge_evidence(vector_results, graph_results, cap) ==
    DedupCap(SortDesc(vector_results \o graph_results), {}, <<>>, cap)

(* ------------------------------------------------------------------ *)
(* orchestrator/pipeline.py : strategy, rewrite, decompose, synthesis *)
(* ------------------------------------------------------------------ *)
\* len(question_trimmed): characters of the words and the blanks between them.
WordLen(w) ==
    IF w = Blank THEN 1
    ELSE IF w = "how?" THEN 4 ELSE IF w = "risk" \/ w = "walk" THEN 4 ELSE 3

RECURSIVE CharLen(_)
CharLen(text) ==
    IF text = <<>> THEN 0
    ELSE WordLen(Head(text)) + (IF Len(text) > 1 THEN 1 ELSE 0) + CharLen(Tail(text))

\* `len(question_trimmed) >= 100`
LongTextChars == 100

\* a selector that sends every question to the vector or the graph retriever
select_strategy_never_decomposes(analysis, question, mode) ==
    IF ContainsAny(question, RelationshipWords)
    THEN [name |-> "graph", k |-> IF mode = "live" THEN 5 ELSE 7]
    ELSE [name |-> "vector", k |-> IF mode = "live" THEN 3 ELSE 5]

select_strategy(analysis, question, mode) ==
    LET question_trimmed == Strip(question)
        contains_connector == ContainsAny(question_trimmed, ConnectorWords)
        contains_relationship == ContainsAny(question_trimmed, RelationshipWords)
        multiple_questions == CountIn(question_trimmed, QuestionMarkWords) >= 2
        live == (mode = "live")
        graph_k == IF live THEN 5 ELSE 7
        sub_limit == IF live THEN 5 ELSE 7
    IN  IF analysis.complexity = "simple"
        THEN IF contains_relationship THEN [name |-> "graph", k |-> graph_k]
             ELSE IF contains_connector \/ multiple_questions
                         \/ CharLen(question_trimmed) >= LongTextChars
                  THEN [name |-> "decompose", k |-> sub_limit]
                  ELSE [name |-> "vector", k |-> IF live THEN 3 ELSE 5]
        ELSE IF analysis.complexity = "multi-hop"
        THEN IF contains_relationship \/ contains_connector
             THEN [name |-> "graph", k |-> graph_k]
             ELSE [name |-> "vector", k |-> IF live THEN 5 ELSE 7]
        ELSE [name |-> "decompose", k |-> sub_limit]

\* What an LLM call can do: raise, or return a text.
LlmRaises == "raises"

\* _rewrite_question after the LLM returned `reply` (strategy is not "vector").
EchoWords == {"prompt-echo"}

rewrite_result(question, reply) ==
    IF reply = <<>> \/ ContainsAny(reply, EchoWords) THEN question ELSE reply

determine_question_type(text) ==
    IF ContainsAny(text, RelationshipWords) \/ ContainsAny(text, ConnectorWords)
    THEN "graph" ELSE "vector"

\* question.split(token): the parts between the occurrences of the token, blank
\* parts dropped.  "?" ends the word "how?" (the part keeps "how"); a connector
\* is a word of its own.
RECURSIVE SplitWords(_, _, _)
SplitWords(text, token, cur) ==
    IF text = <<>> THEN (IF cur = <<>> THEN <<>> ELSE <<cur>>)
    ELSE IF token = "?" /\ Head(text) \in QuestionMarkWords
         THEN <<Append(cur, "how")>> \o SplitWords(Tail(text), token, <<>>)
    ELSE IF token = "and" /\ Head(text) \in ConnectorWords
         THEN (IF cur = <<>> THEN <<>> ELSE <<cur>>) \o SplitWords(Tail(text), token, <<>>)
    ELSE SplitWords(Tail(text), token, Append(cur, Head(text)))

HasToken(text, token) ==
    IF token = "?" THEN ContainsAny(text, QuestionMarkWords)
    ELSE ContainsAny(text, ConnectorWords)

heuristic_split(question) ==
    IF HasToken(question, "?") /\ Len(SplitWords(question, "?", <<>>)) > 1
    THEN SplitWords(question, "?", <<>>)
    ELSE IF HasToken(question, "and") /\ Len(SplitWords(question, "and", <<>>)) > 1
    THEN SplitWords(question, "and", <<>>)
    ELSE <<>>

\* every candidate line becomes a sub-question
decompose_question_uncapped(question, lines) ==
    LET candidates == SelectSeq(lines, LAMBDA l : l # <<>>)
    IN  IF candidates # <<>> THEN candidates ELSE <<question>>

\* _decompose_question given the text the LLM step produced, as its lines.
decompose_question(question, lines) ==
    LET candidates == SelectSeq([i \in 1..Len(lines) |-> Strip(lines[i])],
                                LAMBDA l : l # <<>>)
        split == IF candidates # <<>> THEN candidates ELSE heuristic_split(question)
        final == IF split # <<>> THEN split ELSE <<Strip(question)>>
    IN  Take(final, MaxSubquestions)

\* f"[{chunk.chunk_id}]"
Marker(id) == IF id = "c1" THEN "[c1]" ELSE IF id = "c2" THEN "[c2]" ELSE "[c3]"

Citations(evidence) == [i \in 1..Len(evidence) |-> Marker(evidence[i].chunk_id)]

NoEvidenceMessage == <<"no-direct-evidence", ".">>
LlmMissingMessage == <<"llm-not-initialised", ".">>
EmptyReplyMessage == <<"generic-lifestyle-advice", ".">>

\* _synthesize_answer for non-empty evidence, given the answer text the LLM step
\* produced: an empty one is replaced, and the citation list is appended when
\* its first marker is not in the answer.
synthesize_with_evidence(evidence, reply) ==
    LET citations == Citations(evidence)
        answer == IF reply = <<>> THEN EmptyReplyMessage ELSE reply
    IN  [answer |-> IF citations = <<>> \/ ContainsAny(answer, {citations[1]}) THEN answer
                    ELSE answer \o citations,
         citations |-> citations]

(* ------------------------------------------------------------------ *)
(* metrics.py                                                         *)
(* ------------------------------------------------------------------ *)
\* The threads that record latencies (request handlers) and the thread that
\* takes snapshots (GET /metrics/latency).
Recorders == {1, 2}
Snapshotter == 3

\* LatencyStats()
NewStats == [count |-> 0, total |-> 0, max_value |-> 0]

\* LatencyStats.summary: avg_ms is the quotient total * 1000 / count, kept as
\* the pair of its numerator and denominator
summary(stats) ==
    [count |-> stats.count,
     avg_ms |-> IF stats.count # 0 THEN <<stats.total * 1000, stats.count>> ELSE <<0, 1>>,
     max_ms |-> stats.max_value * 1000]

NoSnapshot == [count |-> -1, avg_ms |-> <<0, 1>>, max_ms |-> 0]

\* LatencyMonitor(): one stage's LatencyStats, the lock (0 when free, else the
\* thread holding it), each thread's position, the durations of the record
\* calls that have returned, and the last snapshot.
NewMonitor ==
    [lock |-> 0,
     stats |-> NewStats,
     pc |-> [t \in Recorders \cup {Snapshotter} |-> "idle"],
     duration |-> [t \in Recorders |-> 0],
     begun |-> 0,
     snapshots |-> 0,
     recorded |-> <<>>,
     snapshot |-> NoSnapshot]

\* entering the `with` block without the lock
lock_ignored(m, t) == TRUE

\* `with self._lock:` can be entered
lock_free(m, t) == m.lock = 0

(* ------------------------------------------------------------------ *)
(* retrievers : Chunk objects.  A Chunk object is an entry of          *)
(* heap.objects and is referred to by its position; the retrievers'   *)
(* self._chunks and the lists the calls returned hold positions.      *)
(* metadata is its "retrieval" key, "" when the key is absent.        *)
(* ------------------------------------------------------------------ *)
NewChunk(id) ==
    [chunk_id |-> id, score |-> 0, has_score |-> FALSE, retrieval |-> "",
     embedding |-> FALSE]

NewHeap ==
    [objects |-> <<NewChunk("c1"), NewChunk("c2")>>,
     vector_chunks |-> <<1, 2>>,
     graph_chunks |-> <<1, 2>>,
     returned |-> <<>>]

\* the score and the tag written on the cached object itself
annotated_in_place(objects, base, sc, tag) ==
    [objects |-> [objects EXCEPT ![base] =
                     [@ EXCEPT !.score = sc, !.has_score = TRUE, !.retrieval = tag]],
     ref |-> base]

\* enriched = replace(chunk); enriched.metadata = dict(chunk.metadata);
\* enriched.metadata["retrieval"] = tag; enriched.score = score
enriched_copy(objects, base, sc, tag) ==
    [objects |-> Append(objects,
                        [objects[base] EXCEPT !.score = sc, !.has_score = TRUE,
                                              !.retrieval = tag]),
     ref |-> Len(objects) + 1]

\* the loop over scored[:limit]: hits are <<position, score>> records
RECURSIVE EnrichAll(_, _, _, _)
EnrichAll(objects, hits, tag, out) ==
    IF hits = <<>> THEN [objects |-> objects, out |-> out]
    ELSE LET e == enriched_copy(objects, Head(hits).ref, Head(hits).score, tag) IN
         EnrichAll(e.objects, Tail(hits), tag, Append(out, e.ref))

\* self._chunk_index.get(chunk_id): the position of the cached object, 0 for None
ChunkIndexGet(objects, chunks, id) ==
    LET found == {i \in 1..Len(chunks) : objects[chunks[i]].chunk_id = id} IN
    IF found = {} THEN 0 ELSE chunks[CHOOSE i \in found : TRUE]

\* _cached_vectors: every cached chunk without an embedding gets one
cached_vectors(objects, chunks) ==
    [a \in 1..Len(objects) |->
        IF a \in Range(chunks) THEN [objects[a] EXCEPT !.embedding = TRUE] ELSE objects[a]]

Scored(chunks, scores) ==
    [i \in 1..Len(chunks) |-> [ref |-> chunks[i], score |-> scores[i], has_score |-> TRUE]]

Positive(hit) == hit.score > 0

\* VectorRetriever._retrieve_from_cache
vector_retrieve_from_cache(h, scores, limit) ==
    LET objects == cached_vectors(h.objects, h.vector_chunks)
        scored == SortDesc(Scored(h.vector_chunks, scores))
        r == EnrichAll(objects, Take(scored, limit), "vector", <<>>)
    IN  [h EXCEPT !.objects = r.objects, !.returned = Append(@, r.out)]

\* GraphRetriever._retrieve_from_cache: the chunks with a keyword count above 0
graph_retrieve_from_cache(h, scores, limit) ==
    LET scored == SortDesc(SelectSeq(Scored(h.graph_chunks, scores), Positive))
        r == EnrichAll(h.objects, Take(scored, limit), "keyword", <<>>)
    IN  [h EXCEPT !.objects = r.objects, !.returned = Append(@, r.out)]

\* VectorRetriever._retrieve_from_database over the fetched rows: the base is
\* the indexed chunk or a Chunk built from the row; the copy takes the row's
\* embedding
RECURSIVE DatabaseRows(_, _, _, _)
DatabaseRows(objects, chunks, rows, out) ==
    IF rows = <<>> THEN [objects |-> objects, out |-> out]
    ELSE LET known == ChunkIndexGet(objects, chunks, Head(rows).chunk_id)
             withBase == IF known = 0 THEN Append(objects, NewChunk(Head(rows).chunk_id))
                         ELSE objects
             base == IF known = 0 THEN Len(objects) + 1 ELSE known
             e == enriched_copy(withBase, base, Head(rows).score, "vector")
             copied == [e.objects EXCEPT ![e.ref].embedding = TRUE]
         IN  DatabaseRows(copied, chunks, Tail(rows), Append(out, e.ref))

vector_retrieve_from_database(h, rows) ==
    LET r == DatabaseRows(h.objects, h.vector_chunks, rows, <<>>) IN
    [h EXCEPT !.objects = r.objects, !.returned = Append(@, r.out)]

\* GraphRetriever._search_graphiti over the episodes of the edges found: an
\* episode seen before is skipped, an unknown chunk is built and added to
\* self._chunks, and the loop returns at `limit` results
RECURSIVE GraphitiEpisodes(_, _, _, _, _, _)
GraphitiEpisodes(objects, chunks, episodes, seen, out, limit) ==
    IF episodes = <<>> \/ Len(out) >= limit
    THEN [objects |-> objects, chunks |-> chunks, out |-> out]
    ELSE LET ep == Head(episodes) IN
         IF ep.chunk_id \in seen
         THEN GraphitiEpisodes(objects, chunks, Tail(episodes), seen, out, limit)
         ELSE LET known == ChunkIndexGet(objects, chunks, ep.chunk_id)
                  withBase == IF known = 0 THEN Append(objects, NewChunk(ep.chunk_id))
                              ELSE objects
                  base == IF known = 0 THEN Len(objects) + 1 ELSE known
                  e == enriched_copy(withBase, base, ep.score, "graphiti")
              IN  GraphitiEpisodes(e.objects,
                                   IF known = 0 THEN Append(chunks, base) ELSE chunks,
                                   Tail(episodes), seen \cup {ep.chunk_id},
                                   Append(out, e.ref), limit)

search_graphiti(h, episodes, limit) ==
    LET r == GraphitiEpisodes(h.objects, h.graph_chunks, episodes, {}, <<>>, limit) IN
    [h EXCEPT !.objects = r.objects, !.graph_chunks = r.chunks,
              !.returned = Append(@, r.out)]

\* event_generator before its first event
NewStream == [status |-> "idle", events |-> <<>>]

\* The executor's worker threads that run _retrieve_from_cache, and the
\* retriever's chunks by position.  index.local_vectors is <<>> for None and
\* else the list of chunk positions that have a vector in it; index.vectors[t]
\* is the local list `vectors` of thread t.
Workers == {1, 2, 3}
CachedChunkCount == 3

NewIndex ==
    [local_vectors |-> <<>>,
     pc |-> [t \in Workers |-> "idle"],
     vectors |-> [t \in Workers |-> <<>>],
     begun |-> 0,
     builds |-> 0,
     got |-> <<>>]

\* `if self._local_vectors is not None: return self._local_vectors`
index_decided(ix, t) == IF ix.local_vectors # <<>> THEN "return" ELSE "build"

(* ------------------------------------------------------------------ *)
(* RetrievalPipeline.run and the LangGraph nodes                      *)
(* ------------------------------------------------------------------ *)
VARIABLES
    question,        \* the request's question
    mode,            \* "live" or "preparation"
    llm_present,     \* self.small_llm / self.main_llm are truthy
    max_evidence,    \* self.max_evidence (EVIDENCE_LIMIT)
    pc,              \* where the run is: the node to execute next, or its end
    st,              \* the LangGraph state dict
    trace,           \* the nodes executed so far, in order
    tasks,           \* the decompose node's retrieval tasks
    output,          \* what run() gave back
    llm_calls,       \* LLM invocations so far
    retriever_calls, \* retriever invocations so far
    faq,             \* the FAQCache object
    use_st,          \* FAQCache.use_sentence_transformer
    now,             \* today's date, in days
    faq_log,         \* the most recent calls of FAQCache.set / FAQCache.get
    writer,          \* a thread inside FAQCache.set
    reader,          \* a thread inside FAQCache.get
    call,            \* a function or handler called on its own, with its arguments
    ret,             \* what that call gave back
    monitor,         \* metrics.monitor and the threads inside its methods
    heap,            \* the Chunk objects and the retrievers' lists that refer to them
    gather,          \* the decompose stage's way of running its retrieval tasks
    index,           \* VectorRetriever._local_vectors and the threads inside _cached_vectors
    stream           \* the server-sent events of one POST /v1/retrieve/stream

vars == <<question, mode, llm_present, max_evidence, pc, st, trace, tasks, output,
          llm_calls, retriever_calls, faq, use_st, now, faq_log, writer, reader,
          call, ret, monitor, heap, gather, index, stream>>

\* A measured duration, in ticks of the clock; the retrieval stages take any of
\* Durations, every other stage one tick.
UnitDuration == 1
Durations == 1..MaxDuration

NoCall == [fn |-> ""]
NoRet == [fn |-> ""]

IdleWriter == [pc |-> "idle", q |-> <<>>, answer |-> <<>>, ttl_days |-> 0, calls |-> 0]
IdleReader ==
    [pc |-> "idle", q |-> <<>>, max_idx |-> 0, matched |-> <<>>, i |-> 0,
     attached |-> FALSE, resized |-> FALSE, items |-> <<>>, result |-> Miss, calls |-> 0]

NoAnalysis == [complexity |-> "", safety |-> "", latency_exceeded |-> FALSE]
NoEnvelope == [level |-> "", banner_title |-> <<>>, banner_body |-> <<>>,
               escalation_copy |-> <<>>,
               answer_override |-> NoOverride]

\* state.get("preparation_analysis") before the prep_synthesize node ran: None
NoPreparation == [present |-> FALSE, expected_questions |-> <<>>]

\* The dict run() passes to graph.invoke; a key that is not set yet holds the
\* value state.get gives for it.
InitialState ==
    [analysis |-> NoAnalysis, safety |-> NoEnvelope, strategy |-> "", strategy_k |-> 0,
     rewritten_question |-> <<>>, vector_results |-> <<>>, graph_results |-> <<>>,
     evidence |-> <<>>, answer |-> <<>>, citations |-> <<>>, subquestions |-> <<>>,
     timing_entries |-> <<>>, patient_state |-> FALSE, expected_questions_text |-> <<>>,
     expected_questions |-> <<>>, preparation_analysis |-> NoPreparation]

NoOutput ==
    [kind |-> "none", exc |-> "", analysis |-> NoAnalysis, safety |-> NoEnvelope,
     answer |-> <<>>, citations |-> <<>>, evidence |-> <<>>,
     preparation_analysis |-> NoPreparation, timings |-> <<>>]

Exception(e) == [NoOutput EXCEPT !.kind = "exception", !.exc = e]

\* A dataclass constructor accepts keyword arguments that name its fields and
\* cover the fields without a default; anything else is a TypeError.
\* A constructor that takes whatever keywords it is given.
DataclassAcceptsAny(fields, required, kwargs) == TRUE

DataclassAccepts(fields, required, kwargs) ==
    kwargs \subseteq fields /\ required \subseteq kwargs

QuestionAnalysisResultFields == {"domain", "complexity", "safety", "reasons", "latency_ms"}
SafetyEnvelopeFields ==
    {"level", "banner_title", "banner_body", "escalation_copy", "answer_override"}
SafetyEnvelopeRequired == {"level", "banner_title", "banner_body", "escalation_copy"}

\* The keyword arguments of the two constructor calls in run()'s cache-hit branch.
CacheHitAnalysisKwargs == {"domain", "complexity", "strategy", "safety", "reasoning"}
CacheHitEnvelopeKwargs == {"level", "guidance", "scrubbed"}

CacheHitOutput(cached_answer) ==
    [NoOutput EXCEPT !.kind = "output",
                     !.analysis = [complexity |-> "simple", safety |-> "clear",
                                   latency_exceeded |-> FALSE],
                     !.safety = [NoEnvelope EXCEPT !.level = "clear"],
                     !.answer = cached_answer,
                     !.citations = <<"FAQ Cache">>,
                     !.timings = [k \in {"total", "cache_lookup"} |-> UnitDuration]]

\* run(), up to graph.invoke: the FAQ lookup of live mode.
RunCall ==
    /\ pc = "call"
    /\ IF mode = "live"
       THEN LET r == faq_get(faq, use_st, question, SimilarityThresholdPct, now) IN
            /\ faq' = r.c
            /\ IF r.result.kind = "hit" /\ r.result.answer # <<>>
               THEN IF /\ DataclassAccepts(QuestionAnalysisResultFields,
                                           QuestionAnalysisResultFields,
                                           CacheHitAnalysisKwargs)
                       /\ DataclassAccepts(SafetyEnvelopeFields, SafetyEnvelopeRequired,
                                           CacheHitEnvelopeKwargs)
                    THEN pc' = "returned" /\ output' = CacheHitOutput(r.result.answer)
                    ELSE pc' = "raised" /\ output' = Exception("TypeError")
               ELSE IF r.result.kind \in {"hit", "none"}
               THEN pc' = "analysis" /\ output' = output
               ELSE pc' = "raised" /\ output' = Exception(r.result.kind)
       ELSE pc' = "analysis" /\ UNCHANGED <<faq, output>>
    /\ UNCHANGED <<question, mode, llm_present, max_evidence, st, trace, tasks,
                   llm_calls, retriever_calls, use_st, now, faq_log, writer, reader,
                   call, ret, monitor, heap, gather, index, stream>>

update_timings(s, stage, duration) ==
    [s EXCEPT !.timing_entries = Append(@, <<stage, duration>>)]

Timed(s, stage) == update_timings(s, stage, UnitDuration)

\* what neither a node nor a retrieval task of the decompose stage touches
TaskFrame ==
    UNCHANGED <<question, mode, llm_present, max_evidence, faq, use_st, now,
                faq_log, writer, reader, call, ret, monitor, heap, index, stream>>

\* asyncio.run(_retrieve_parallel()) as first tried; no task has completed
NewGather == [path |-> "parallel", completed |-> <<>>, failures |-> 0]

Frame == TaskFrame /\ UNCHANGED gather

NodeRaises(node, e) ==
    /\ pc' = "raised"
    /\ output' = Exception(e)
    /\ trace' = Append(trace, node)
    /\ UNCHANGED <<st, tasks>>

NodeAnalysis ==
    /\ pc = "analysis"
    /\ \E slow \in BOOLEAN :
          LET analysis == analyze(question, slow)
              strategy == select_strategy(analysis, question, mode)
          IN  st' = [Timed(st, "analysis") EXCEPT !.analysis = analysis,
                                                    !.strategy = strategy.name,
                                                    !.strategy_k = strategy.k]
    /\ pc' = "safety"
    /\ trace' = Append(trace, "analysis")
    /\ UNCHANGED <<tasks, output, llm_calls, retriever_calls>>
    /\ Frame

\* Routing on the mode alone.
route_after_safety_mode_only(s, m) ==
    IF m = "preparation" THEN "prep_analyze_patient" ELSE "rewrite"

\* Routing that ignores the mode.
route_after_safety_live_only(s, m) ==
    IF s.safety.level = "escalate" THEN "finish" ELSE "rewrite"

route_after_safety(s, m) ==
    IF s.safety.level = "escalate" THEN "finish"
    ELSE IF m = "preparation" THEN "prep_analyze_patient"
    ELSE "rewrite"

node_safety(s) ==
    LET envelope == build_safety_envelope(s.analysis)
        base == [Timed(s, "safety") EXCEPT !.safety = envelope]
    IN  IF s.analysis.safety = "escalate"
        THEN [base EXCEPT !.answer = envelope.answer_override,
                          !.citations = <<>>,
                          !.evidence = <<>>]
        ELSE base

NodeSafety ==
    /\ pc = "safety"
    /\ st' = node_safety(st)
    /\ pc' = route_after_safety(st', mode)
    /\ trace' = Append(trace, "safety")
    /\ UNCHANGED <<tasks, output, llm_calls, retriever_calls>>
    /\ Frame

\* Texts an LLM call can return to the rewrite step, the synthesis step and the
\* preparation steps, and the line lists it can return to the decompose step.
RewriteReplies == {<<>>, <<"prompt-echo">>, <<"walk">>}
AnswerReplies == {<<>>, <<"advice", ".">>, <<"advice", "[c1]">>}
DecomposeReplies == {<<>>, << <<"walk">> >>, << <<"walk">>, <<"rel">> >>,
                     << <<"walk">>, <<>>, <<"rel">>, <<"how?">>, <<"med">> >>}

route_post_rewrite(s) ==
    IF s.strategy = "decompose" THEN "decompose"
    ELSE IF s.strategy = "graph" THEN "graph"
    ELSE "vector"

NodeRewrite ==
    /\ pc = "rewrite"
    /\ IF st.strategy = "vector" \/ ~llm_present
       THEN /\ st' = [Timed(st, "rewrite") EXCEPT !.rewritten_question = question]
            /\ pc' = route_post_rewrite(st')
            /\ trace' = Append(trace, "rewrite")
            /\ UNCHANGED <<tasks, output, llm_calls>>
       ELSE /\ llm_calls' = llm_calls + 1
            /\ \/ NodeRaises("rewrite", "LLMError")
               \/ \E reply \in RewriteReplies :
                     /\ st' = [Timed(st, "rewrite") EXCEPT
                                  !.rewritten_question = rewrite_result(question, reply)]
                     /\ pc' = route_post_rewrite(st')
                     /\ trace' = Append(trace, "rewrite")
                     /\ UNCHANGED <<tasks, output>>
    /\ UNCHANGED retriever_calls
    /\ Frame

NodeVector ==
    /\ pc = "vector"
    /\ IF st.strategy # "vector"
       THEN st' = [st EXCEPT !.vector_results = <<>>] /\ UNCHANGED retriever_calls
       ELSE /\ retriever_calls' = retriever_calls + 1
            /\ \E remote \in RemoteOutcomes, rows \in ResultLists, local \in ResultLists,
                  duration \in Durations :
                  st' = [update_timings(st, "retrieval_vector", duration) EXCEPT
                           !.vector_results = vector_retrieve(st.strategy_k, remote, rows, local)]
    /\ pc' = "merge"
    /\ trace' = Append(trace, "vector")
    /\ UNCHANGED <<tasks, output, llm_calls>>
    /\ Frame

NodeGraph ==
    /\ pc = "graph"
    /\ IF st.strategy # "graph"
       THEN st' = [st EXCEPT !.graph_results = <<>>] /\ UNCHANGED retriever_calls
       ELSE /\ retriever_calls' = retriever_calls + 1
            /\ \E remote \in RemoteOutcomes, rows \in ResultLists, local \in ResultLists,
                  duration \in Durations :
                  st' = [update_timings(st, "retrieval_graph", duration) EXCEPT
                           !.graph_results = graph_retrieve(st.strategy_k, remote, rows, local)]
    /\ pc' = "merge"
    /\ trace' = Append(trace, "graph")
    /\ UNCHANGED <<tasks, output, llm_calls>>
    /\ Frame

node_merge_evidence(s, cap) ==
    IF s.strategy = "decompose" /\ s.evidence # <<>>
    THEN s
    ELSE [s EXCEPT !.evidence = merge_evidence(s.vector_results, s.graph_results, cap)]

NodeMerge ==
    /\ pc = "merge"
    /\ st' = node_merge_evidence(st, max_evidence)
    /\ pc' = "synthesize"
    /\ trace' = Append(trace, "merge")
    /\ UNCHANGED <<tasks, output, llm_calls, retriever_calls>>
    /\ Frame

\* every call drafts its answer with the main LLM
has_evidence_always(evidence) == TRUE

\* `if evidence:` in _synthesize_answer
has_evidence(evidence) == evidence # <<>>

NodeSynthesize ==
    /\ pc = "synthesize"
    /\ IF ~has_evidence(st.evidence)
       THEN /\ st' = [Timed(st, "synthesis") EXCEPT !.answer = NoEvidenceMessage,
                                                     !.citations = <<>>]
            /\ pc' = "finish"
            /\ trace' = Append(trace, "synthesize")
            /\ UNCHANGED <<tasks, output, llm_calls>>
       ELSE IF ~llm_present
       THEN /\ LET r == synthesize_with_evidence(st.evidence, LlmMissingMessage) IN
                 st' = [Timed(st, "synthesis") EXCEPT !.answer = r.answer,
                                                        !.citations = r.citations]
            /\ pc' = "finish"
            /\ trace' = Append(trace, "synthesize")
            /\ UNCHANGED <<tasks, output, llm_calls>>
       ELSE /\ llm_calls' = llm_calls + 1
            /\ \/ NodeRaises("synthesize", "LLMError")
               \/ \E reply \in AnswerReplies :
                     LET r == synthesize_with_evidence(st.evidence, reply) IN
                     /\ st' = [Timed(st, "synthesis") EXCEPT !.answer = r.answer,
                                                              !.citations = r.citations]
                     /\ pc' = "finish"
                     /\ trace' = Append(trace, "synthesize")
                     /\ UNCHANGED <<tasks, output>>
    /\ UNCHANGED retriever_calls
    /\ Frame

\* _node_decompose, first part: _decompose_question and the creation of one
\* _retrieve_with_fallback task per sub-question.
NewTasks(subquestions) ==
    [i \in 1..Len(subquestions) |->
        [subquestion |-> subquestions[i],
         search_type |-> determine_question_type(subquestions[i]),
         status |-> "primary", hits |-> <<>>, retrieval |-> ""]]

NodeDecomposeStart ==
    /\ pc = "decompose"
    /\ LET q == IF st.rewritten_question # <<>> THEN st.rewritten_question ELSE question IN
       IF ~llm_present
       THEN /\ tasks' = NewTasks(decompose_question(q, <<q>>))
            /\ pc' = "decompose_gather"
            /\ trace' = Append(trace, "decompose")
            /\ UNCHANGED <<st, output, llm_calls>>
       ELSE /\ llm_calls' = llm_calls + 1
            /\ \/ NodeRaises("decompose", "LLMError")
               \/ \E lines \in DecomposeReplies :
                     /\ tasks' = NewTasks(decompose_question(q, lines))
                     /\ pc' = "decompose_gather"
                     /\ trace' = Append(trace, "decompose")
                     /\ UNCHANGED <<st, output>>
    /\ UNCHANGED retriever_calls
    /\ Frame

\* metadata["retrieval"] as the backend that answered sets it on every chunk of
\* one call: "vector" (database or cache), "graphiti" or "keyword"
retrieval_tag(kind, remote, rows) ==
    IF kind = "graph"
    THEN (IF remote = "rows" /\ rows # <<>> THEN "graphiti" ELSE "keyword")
    ELSE "vector"

\* _retrieve_with_fallback: the primary backend, then (TaskFallback) the other
\* one when the primary returned nothing; the hits sorted and cut to the limit.
Retrieved(kind, limit, remote, rows, local) ==
    IF kind = "graph" THEN graph_retrieve(limit, remote, rows, local)
    ELSE vector_retrieve(limit, remote, rows, local)

\* the other backend queried whatever the primary returned
fallback_always(hits) == TRUE

\* `if not hits:` after the primary backend's call
fallback_needed(hits) == hits = <<>>

TaskPrimaryStep(i) ==
    /\ pc = "decompose_gather"
    /\ tasks[i].status = "primary"
    /\ \E remote \in RemoteOutcomes, rows \in ResultLists, local \in ResultLists :
          LET hits == Retrieved(tasks[i].search_type, st.strategy_k, remote, rows, local) IN
          tasks' = [tasks EXCEPT ![i] =
                      IF fallback_needed(hits)
                      THEN [@ EXCEPT !.status = "fallback", !.hits = hits]
                      ELSE [@ EXCEPT !.status = "done",
                                     !.hits = Take(SortDesc(hits), st.strategy_k),
                                     !.retrieval =
                                         retrieval_tag(tasks[i].search_type, remote, rows)]]
    /\ retriever_calls' = retriever_calls + 1
    /\ UNCHANGED <<pc, st, trace, output, llm_calls>>

TaskPrimary(i) == TaskPrimaryStep(i) /\ Frame

TaskFallbackStep(i) ==
    /\ pc = "decompose_gather"
    /\ tasks[i].status = "fallback"
    /\ \E remote \in RemoteOutcomes, rows \in ResultLists, local \in ResultLists :
          LET other == IF tasks[i].search_type = "graph" THEN "vector" ELSE "graph"
              hits == Retrieved(other, st.strategy_k, remote, rows, local) IN
          tasks' = [tasks EXCEPT ![i] = [@ EXCEPT !.status = "done",
                                                  !.hits = Take(SortDesc(hits), st.strategy_k),
                                                  !.retrieval =
                                                      retrieval_tag(other, remote, rows)]]
    /\ retriever_calls' = retriever_calls + 1
    /\ UNCHANGED <<pc, st, trace, output, llm_calls>>

TaskFallback(i) == TaskFallbackStep(i) /\ Frame

\* the copy of a task's chunk with metadata["subquestion"] set; setdefault
\* leaves the backend's metadata["retrieval"] in place
enrich(chunk, task) ==
    [chunk_id |-> chunk.chunk_id, score |-> chunk.score, has_score |-> chunk.has_score,
     subquestion |-> task.subquestion, retrieval |-> task.retrieval]

RECURSIVE Flatten(_)
Flatten(ts) ==
    IF ts = <<>> THEN <<>>
    ELSE [k \in 1..Len(Head(ts).hits) |-> enrich(Head(ts).hits[k], Head(ts))]
             \o Flatten(Tail(ts))

\* the results handed over in the order in which the tasks completed
gather_results_as_completed(ts, completed) ==
    [k \in 1..Len(completed) |-> ts[completed[k]]]

\* asyncio.gather(*tasks) returns the results in the order of the awaitables
\* passed in, whatever the order of completion; _retrieve_sequential appends
\* in the order of its loop
gather_results(ts, completed) == ts

\* _node_decompose, second part: asyncio.gather has returned; the results are
\* flattened in task order, deduplicated and capped.
NodeDecomposeJoinStep(completed) ==
    /\ pc = "decompose_gather"
    /\ \A i \in 1..Len(tasks) : tasks[i].status = "done"
    /\ st' = [Timed(st, "decompose") EXCEPT
                 !.subquestions = [i \in 1..Len(tasks) |-> tasks[i].subquestion],
                 !.evidence = DedupCap(Flatten(gather_results(tasks, completed)),
                                       {}, <<>>, max_evidence)]
    /\ pc' = "synthesize"
    /\ tasks' = <<>>
    /\ UNCHANGED <<trace, output, llm_calls, retriever_calls>>

NodeDecomposeJoin == NodeDecomposeJoinStep([i \in 1..Len(tasks) |-> i]) /\ Frame

(* Preparation mode nodes *)
ExpectedQuestionsCap == 5

PrepLlmNode(node, stage, next, update(_)) ==
    /\ pc = node
    /\ IF ~llm_present
       THEN /\ st' = update(Timed(st, stage))
            /\ pc' = next
            /\ trace' = Append(trace, node)
            /\ UNCHANGED <<tasks, output, llm_calls>>
       ELSE /\ llm_calls' = llm_calls + 1
            /\ \/ NodeRaises(node, "LLMError")
               \/ /\ st' = update(Timed(st, stage))
                  /\ pc' = next
                  /\ trace' = Append(trace, node)
                  /\ UNCHANGED <<tasks, output>>
    /\ UNCHANGED retriever_calls
    /\ Frame

SetPatientState(s) == [s EXCEPT !.patient_state = TRUE]

PrepAnalyzePatient ==
    PrepLlmNode("prep_analyze_patient", "prep_patient_analysis", "prep_analyze_history",
                SetPatientState)

KeepState(s) == s

PrepAnalyzeHistory ==
    PrepLlmNode("prep_analyze_history", "prep_history_analysis", "prep_generate_questions",
                KeepState)

\* The LLM's lines that contain "?" are the expected questions, at most five;
\* a question is named by its place among those lines.
PrepGenerateQuestionsUpTo(max_lines) ==
    /\ pc = "prep_generate_questions"
    /\ IF ~llm_present
       THEN /\ st' = [Timed(st, "prep_question_generation") EXCEPT
                         !.expected_questions_text = <<>>]
            /\ pc' = "prep_prepare_answers"
            /\ trace' = Append(trace, "prep_generate_questions")
            /\ UNCHANGED <<tasks, output, llm_calls>>
       ELSE /\ llm_calls' = llm_calls + 1
            /\ \/ NodeRaises("prep_generate_questions", "LLMError")
               \/ \E n \in 0..max_lines :
                     /\ st' = [Timed(st, "prep_question_generation") EXCEPT
                                  !.expected_questions_text =
                                      Take([i \in 1..n |-> i], ExpectedQuestionsCap)]
                     /\ pc' = "prep_prepare_answers"
                     /\ trace' = Append(trace, "prep_generate_questions")
                     /\ UNCHANGED <<tasks, output>>
    /\ UNCHANGED retriever_calls
    /\ Frame

PrepGenerateQuestions == PrepGenerateQuestionsUpTo(MaxExpected)

\* _prepare_single_answer: the ExpectedQuestion of one question; its
\* recommended answer is the LLM's text or one of the fixed sentences
ExpectedQuestion(q) == [question |-> q, answered |-> TRUE]

\* the answers listed as their tasks finish
prepare_answers_as_completed(questions, completed) ==
    [i \in 1..Len(questions) |-> ExpectedQuestion(questions[completed[i]])]

\* await asyncio.gather(*tasks), and the sequential list comprehension: the
\* results in the order of expected_questions_text
prepare_answers_parallel(questions, completed) ==
    [i \in 1..Len(questions) |-> ExpectedQuestion(questions[i])]

\* One _prepare_single_answer per expected question: a retrieval and, with an
\* LLM, one LLM call; the tasks finish in the order `completed`;
\* asyncio.gather re-raises what a task raised.
PrepPrepareAnswers ==
    /\ pc = "prep_prepare_answers"
    /\ LET questions == st.expected_questions_text
           n == Len(questions)
       IN
       /\ retriever_calls' = retriever_calls + n
       /\ \E completed \in Permutations(1..n) :
            IF ~llm_present \/ n = 0
            THEN /\ st' = [Timed(st, "prep_answer_preparation") EXCEPT
                              !.expected_questions =
                                  prepare_answers_parallel(questions, completed)]
                 /\ pc' = "prep_delivery_examples"
                 /\ trace' = Append(trace, "prep_prepare_answers")
                 /\ UNCHANGED <<tasks, output, llm_calls>>
            ELSE /\ llm_calls' = llm_calls + n
                 /\ \/ NodeRaises("prep_prepare_answers", "LLMError")
                    \/ /\ st' = [Timed(st, "prep_answer_preparation") EXCEPT
                                    !.expected_questions =
                                        prepare_answers_parallel(questions, completed)]
                       /\ pc' = "prep_delivery_examples"
                       /\ trace' = Append(trace, "prep_prepare_answers")
                       /\ UNCHANGED <<tasks, output>>
    /\ Frame

PrepDeliveryExamples ==
    /\ pc = "prep_delivery_examples"
    /\ st' = Timed(st, "prep_delivery_examples")
    /\ pc' = "prep_synthesize"
    /\ trace' = Append(trace, "prep_delivery_examples")
    /\ UNCHANGED <<tasks, output, llm_calls, retriever_calls>>
    /\ Frame

PrepSynthesize ==
    /\ pc = "prep_synthesize"
    /\ st' = [Timed(st, "prep_synthesis") EXCEPT
                 !.preparation_analysis =
                     [present |-> TRUE, expected_questions |-> st.expected_questions]]
    /\ pc' = "finish"
    /\ trace' = Append(trace, "prep_synthesize")
    /\ UNCHANGED <<tasks, output, llm_calls, retriever_calls>>
    /\ Frame

\* run(), after graph.invoke returned: the timings map and the RetrievalOutput.
\* {stage: duration for stage, duration in entries}: the last entry of a stage wins
timings_of(entries) ==
    [k \in {entries[i][1] : i \in 1..Len(entries)} |->
        LET last == CHOOSE i \in 1..Len(entries) :
                        /\ entries[i][1] = k
                        /\ \A j \in (i + 1)..Len(entries) : entries[j][1] # k
        IN  entries[last][2]]

RECURSIVE SumDurations(_)
SumDurations(entries) ==
    IF entries = <<>> THEN 0 ELSE Head(entries)[2] + SumDurations(Tail(entries))

\* timings.get(key, 0.0)
TimingGet(timings, key) == IF key \in DOMAIN timings THEN timings[key] ELSE 0

WithTiming(timings, key, value) ==
    [k \in DOMAIN timings \cup {key} |-> IF k = key THEN value ELSE timings[k]]

\* The ledger with its total and without the derived retrieval entry.
run_timings_underived(entries) ==
    WithTiming(timings_of(entries), "total", SumDurations(entries) + UnitDuration)

\* run(), lines 287-293: the wall-clock total is the stages' time and run()'s own.
run_timings(entries) ==
    LET timings == WithTiming(timings_of(entries), "total",
                              SumDurations(entries) + UnitDuration)
    IN  IF "retrieval" \in DOMAIN timings THEN timings
        ELSE WithTiming(timings, "retrieval",
                        TimingGet(timings, "retrieval_vector")
                            + TimingGet(timings, "retrieval_graph"))

run_output(s, m) ==
    LET stages == run_timings(s.timing_entries) IN
    IF m = "preparation"
    THEN [kind |-> "output", exc |-> "", analysis |-> s.analysis, safety |-> s.safety,
          answer |-> <<>>, citations |-> <<>>, evidence |-> <<>>,
          preparation_analysis |-> s.preparation_analysis, timings |-> stages]
    ELSE [kind |-> "output", exc |-> "", analysis |-> s.analysis, safety |-> s.safety,
          answer |-> scrub_text(
              IF s.analysis.safety = "caution" /\ s.safety.level # "escalate"
              THEN append_caution_guidance(s.answer, s.safety) ELSE s.answer),
          citations |-> s.citations, evidence |-> s.evidence,
          preparation_analysis |-> NoPreparation, timings |-> stages]

RunFinish ==
    /\ pc = "finish"
    /\ output' = run_output(st, mode)
    /\ pc' = "returned"
    /\ UNCHANGED <<st, trace, tasks, llm_calls, retriever_calls>>
    /\ Frame

(* ------------------------------------------------------------------ *)
(* One request through run()                                          *)
(* ------------------------------------------------------------------ *)
\* One question of each kind the classifier and the strategy selector tell apart.
PipelineQuestions ==
    {<<"walk">>, <<"med">>, <<"risk">>, <<"med", "risk">>, <<"walk", "rel">>,
     <<"walk", "and">>, <<"how?", "and">>, <<"how?", "how?">>, <<"risk", "and">>,
     <<"how?", "and", "how?">>, <<"if", "how?", "how?">>}

Entry(q, a, at, ttl) == [q |-> q, answer |-> a, cached_at |-> at, ttl_days |-> ttl]

\* The FAQ cache as the constructor leaves it: loaded from its file.
Loaded(entries, st_flag) ==
    load_cache([cache |-> <<>>, questions |-> <<>>, embeddings |-> <<>>, file |-> entries],
               st_flag)

FaqAnswers == {<<"faq-a">>, <<"faq-b">>}

PipelineCaches ==
    {<<Entry(q, <<"faq-a">>, 0, 1)>> : q \in {<<"walk">>, <<"med">>}}

Init ==
    /\ question \in PipelineQuestions
    /\ mode \in {"live", "preparation"}
    /\ llm_present \in BOOLEAN
    /\ max_evidence \in 0..MaxEvidenceBound
    /\ use_st \in BOOLEAN
    /\ now \in 0..1
    /\ \E entries \in PipelineCaches : faq = Loaded(entries, use_st)
    /\ pc = "call"
    /\ st = InitialState
    /\ trace = <<>>
    /\ tasks = <<>>
    /\ output = NoOutput
    /\ llm_calls = 0
    /\ retriever_calls = 0
    /\ faq_log = <<>>
    /\ writer = IdleWriter
    /\ reader = IdleReader
    /\ call = NoCall
    /\ ret = NoRet
    /\ monitor = NewMonitor
    /\ heap = NewHeap
    /\ gather = NewGather
    /\ index = NewIndex
    /\ stream = NewStream

Next ==
    \/ RunCall
    \/ NodeAnalysis
    \/ NodeSafety
    \/ NodeRewrite
    \/ NodeVector
    \/ NodeGraph
    \/ NodeDecomposeStart
    \/ \E i \in 1..Len(tasks) : TaskPrimary(i)
    \/ \E i \in 1..Len(tasks) : TaskFallback(i)
    \/ NodeDecomposeJoin
    \/ NodeMerge
    \/ NodeSynthesize
    \/ PrepAnalyzePatient
    \/ PrepAnalyzeHistory
    \/ PrepGenerateQuestions
    \/ PrepPrepareAnswers
    \/ PrepDeliveryExamples
    \/ PrepSynthesize
    \/ RunFinish

Spec == Init /\ [][Next]_vars

(* ================================================================== *)
(* Properties of run()                                                *)
(* ================================================================== *)
Returned == pc = "returned" /\ output.kind = "output"

\* The level the classifier assigns in this run: the keyword finding, or
\* escalate when the latency check fired.
ClassifierLevel(a) == IF a.latency_exceeded THEN "escalate" ELSE detect_safety(question)

\* C1: for every question the classifier labels escalate, in every mode, the
\* output run() returns has analysis.safety = escalate, safety.level = escalate,
\* no evidence, no citations, and the envelope's fixed override text as answer.
C1_EscalateOutputIsOverride ==
    (Returned /\ st.analysis.safety = "escalate") =>
        /\ output.analysis.safety = "escalate"
        /\ output.safety.level = "escalate"
        /\ output.evidence = <<>>
        /\ output.citations = <<>>
        /\ output.answer = output.safety.answer_override
        /\ output.answer = OverrideText

\* C2: once the safety node has produced level escalate the run ends there: the
\* executed nodes are analysis and safety only, the run is at its end, and no
\* LLM and no retriever has been invoked.
C2_EscalateTerminates ==
    st.safety.level = "escalate" =>
        /\ trace = <<"analysis", "safety">>
        /\ pc \in {"finish", "returned"}
        /\ llm_calls = 0
        /\ retriever_calls = 0

C2_Witness ==
    /\ Returned
    /\ st.safety.level = "escalate"
    /\ mode = "live"
    /\ llm_present

C4_NoLlmExceptionEscapes == ~(pc = "raised" /\ output.exc = "LLMError")

\* C5: in live mode, whenever the FAQ lookup returns an answer, run() returns an
\* output whose answer is that cached answer and no node has executed.
C5_CacheHitReturnsCachedAnswer ==
    LET r == faq_get(faq, use_st, question, SimilarityThresholdPct, now).result IN
    (mode = "live" /\ pc # "call" /\ r.kind = "hit") =>
        /\ Returned
        /\ output.answer = r.answer
        /\ trace = <<>>

(* ================================================================== *)
(* The merge node and the decompose node's dedup on arbitrary lists   *)
(* ================================================================== *)
MergeChunks ==
    {Chunk(id, sc, TRUE) : id \in ChunkIds, sc \in {1, 2}}
        \cup {Chunk(id, 0, FALSE) : id \in ChunkIds}

MergePairs ==
    {p \in SeqsUpTo(MergeChunks, MaxMergeTotal) \X SeqsUpTo(MergeChunks, MaxMergeTotal) :
        Len(p[1]) + Len(p[2]) <= MaxMergeTotal}

DoneTask(hits) ==
    [subquestion |-> <<"walk">>, search_type |-> "vector", status |-> "done", hits |-> hits,
     retrieval |-> "vector"]

InitMerge ==
    /\ question = <<"walk", "and">>
    /\ mode = "live"
    /\ llm_present = FALSE
    /\ max_evidence \in 0..MaxEvidenceBound
    /\ use_st = FALSE
    /\ now = 0
    /\ faq = Loaded(<<>>, FALSE)
    /\ output = NoOutput
    /\ llm_calls = 0
    /\ retriever_calls = 0
    /\ faq_log = <<>>
    /\ writer = IdleWriter
    /\ reader = IdleReader
    /\ call = NoCall
    /\ ret = NoRet
    /\ monitor = NewMonitor
    /\ heap = NewHeap
    /\ gather = NewGather
    /\ index = NewIndex
    /\ stream = NewStream
    /\ \E p \in MergePairs :
          \/ /\ pc = "merge"
             /\ st = [InitialState EXCEPT !.strategy = "vector", !.strategy_k = 3,
                                          !.vector_results = p[1], !.graph_results = p[2]]
             /\ trace = <<"analysis", "safety", "rewrite", "vector">>
             /\ tasks = <<>>
          \/ /\ pc = "decompose_gather"
             /\ st = [InitialState EXCEPT !.strategy = "decompose", !.strategy_k = 5]
             /\ trace = <<"analysis", "safety", "rewrite", "decompose">>
             /\ tasks = <<DoneTask(p[1]), DoneTask(p[2])>>

NextMerge == NodeMerge \/ NodeDecomposeJoin

SpecMerge == InitMerge /\ [][NextMerge]_vars

MergeRan == pc = "synthesize" /\ trace[Len(trace)] = "merge"
DecomposeRan == pc = "synthesize" /\ trace[Len(trace)] = "decompose"

MergeInputs == st.vector_results \o st.graph_results

\* C6: the evidence the merge node produces has pairwise distinct chunk_ids, and
\* each retained chunk is an input occurrence whose score is the highest among
\* all input occurrences of its chunk_id.
C6_MergeDistinctAndHighest ==
    MergeRan =>
        /\ \A i, j \in 1..Len(st.evidence) :
              st.evidence[i].chunk_id = st.evidence[j].chunk_id => i = j
        /\ \A i \in 1..Len(st.evidence) :
              /\ \E k \in 1..Len(MergeInputs) : MergeInputs[k] = st.evidence[i]
              /\ \A k \in 1..Len(MergeInputs) :
                    MergeInputs[k].chunk_id = st.evidence[i].chunk_id
                        => ScoreKey(st.evidence[i]) >= ScoreKey(MergeInputs[k])

\* the same chunk_id came from both retrievers, the graph's copy scoring higher
C6_Witness ==
    /\ MergeRan
    /\ Len(st.vector_results) = 1 /\ Len(st.graph_results) = 2
    /\ st.graph_results[2].chunk_id = st.vector_results[1].chunk_id
    /\ ScoreKey(st.graph_results[2]) > ScoreKey(st.vector_results[1])
    /\ ScoreKey(st.graph_results[2]) > ScoreKey(st.graph_results[1])
    /\ Len(st.evidence) = 2
    /\ st.evidence[1] = st.graph_results[2]

\* C7: the scores of the merge node's evidence, a missing score counted as 0,
\* are non-increasing.
C7_MergeScoresNonIncreasing ==
    MergeRan =>
        \A i \in 1..(Len(st.evidence) - 1) :
            ScoreKey(st.evidence[i]) >= ScoreKey(st.evidence[i + 1])

\* inputs in ascending order, one of them without a score
C7_Witness ==
    /\ MergeRan
    /\ Len(st.evidence) = 2
    /\ ~st.evidence[2].has_score
    /\ ScoreKey(st.evidence[1]) > 0
    /\ Len(st.vector_results) = 2
    /\ st.vector_results[1] = st.evidence[2]

\* C8: for every configured maximum evidence count, the evidence of the merge
\* node and of the decompose node holds at most that many chunks.
C8_EvidenceAtMostMax ==
    (MergeRan \/ DecomposeRan) => Len(st.evidence) <= max_evidence

(* ================================================================== *)
(* FAQCache used by one thread: set, get and the passing of days      *)
(* ================================================================== *)
FaqQuestions == {<<"walk">>, <<"walk", "risk">>, <<"risk", "walk">>}

\* FAQCache(cache_file) with no file on disk yet.
EmptyFaq == [cache |-> <<>>, questions |-> <<>>, embeddings |-> <<>>, file |-> NoFile]

SetCall(q, a, ttl, at) ==
    [op |-> "set", q |-> q, answer |-> a, ttl_days |-> ttl, at |-> at, result |-> Miss]

GetCall(q, at, result) ==
    [op |-> "get", q |-> q, answer |-> <<>>, ttl_days |-> 0, at |-> at, result |-> result]

\* the last two calls
Logged(log, made) == IF log = <<>> THEN <<made>> ELSE <<log[Len(log)], made>>

PipelineIdle ==
    /\ question = <<"walk">>
    /\ mode = "live"
    /\ llm_present = FALSE
    /\ max_evidence = 0
    /\ pc = "call"
    /\ st = InitialState
    /\ trace = <<>>
    /\ tasks = <<>>
    /\ output = NoOutput
    /\ llm_calls = 0
    /\ retriever_calls = 0

PipelineUnchanged ==
    UNCHANGED <<question, mode, llm_present, max_evidence, pc, st, trace, tasks, output,
                llm_calls, retriever_calls, use_st, call, ret, monitor, heap, gather, index, stream>>

InitFAQ ==
    /\ PipelineIdle
    /\ use_st \in BOOLEAN
    /\ now = 0
    /\ faq = EmptyFaq
    /\ faq_log = <<>>
    /\ writer = IdleWriter
    /\ reader = IdleReader
    /\ call = NoCall
    /\ ret = NoRet
    /\ monitor = NewMonitor
    /\ heap = NewHeap
    /\ gather = NewGather
    /\ index = NewIndex
    /\ stream = NewStream

FaqSet ==
    /\ writer.calls + reader.calls < MaxCalls
    /\ \E q \in FaqQuestions, a \in FaqAnswers, ttl \in 1..MaxTtl :
          /\ faq' = faq_set(faq, use_st, q, a, ttl, now)
          /\ faq_log' = Logged(faq_log, SetCall(q, a, ttl, now))
    /\ writer' = [writer EXCEPT !.calls = @ + 1]
    /\ UNCHANGED <<reader, now>>
    /\ PipelineUnchanged

FaqGet ==
    /\ writer.calls + reader.calls < MaxCalls
    /\ \E q \in FaqQuestions :
          LET r == faq_get(faq, use_st, q, SimilarityThresholdPct, now) IN
          /\ faq' = r.c
          /\ faq_log' = Logged(faq_log, GetCall(q, now, r.result))
    /\ reader' = [reader EXCEPT !.calls = @ + 1]
    /\ UNCHANGED <<writer, now>>
    /\ PipelineUnchanged

Tick ==
    /\ now < MaxNow
    /\ now' = now + 1
    /\ UNCHANGED <<faq, faq_log, writer, reader>>
    /\ PipelineUnchanged

NextFAQ == FaqSet \/ FaqGet \/ Tick

SpecFAQ == InitFAQ /\ [][NextFAQ]_vars

\* C9: get(q) right after set(q, a, ttl) returns a, and get(q) after the entry's
\* ttl has passed (now > cached_at + ttl) returns None and does not raise, with
\* the embedding index and with the Jaccard match.
C9_RoundTrip ==
    (/\ Len(faq_log) = 2
     /\ faq_log[1].op = "set"
     /\ faq_log[2].op = "get"
     /\ faq_log[2].q = faq_log[1].q)
        => /\ faq_log[2].at = faq_log[1].at => faq_log[2].result = Hit(faq_log[1].answer)
           /\ faq_log[2].at > faq_log[1].at + faq_log[1].ttl_days => faq_log[2].result = Miss

(* ================================================================== *)
(* FAQCache shared by two threads: one inside set, one inside get.    *)
(* No lock guards the object, so a thread switch can fall between any *)
(* two statements; a step below is one read or one write of a field.  *)
(* The reader iterates the dict object it took from self.cache when   *)
(* its loop began: attached while self.cache still is that object,    *)
(* its own copy (items) once _load_cache has bound a new dict.        *)
(* ================================================================== *)
InitFAQConc ==
    /\ PipelineIdle
    /\ use_st \in BOOLEAN
    /\ now = 0
    /\ faq \in {EmptyFaq, Loaded(<<Entry(<<"walk">>, <<"faq-a">>, 0, 1)>>, use_st)}
    /\ faq_log = <<>>
    /\ writer = IdleWriter
    /\ reader = IdleReader
    /\ call = NoCall
    /\ ret = NoRet
    /\ monitor = NewMonitor
    /\ heap = NewHeap
    /\ gather = NewGather
    /\ index = NewIndex
    /\ stream = NewStream

ConcFrame ==
    UNCHANGED <<question, mode, llm_present, max_evidence, pc, st, trace, tasks, output,
                llm_calls, retriever_calls, use_st, now, faq_log, call, ret, monitor, heap, gather, index, stream>>

\* set, line 158: self.cache[question] = {...}, on the live dict
SetAssign ==
    /\ writer.pc = "idle"
    /\ writer.calls < MaxSets
    /\ \E q \in FaqQuestions, a \in FaqAnswers, ttl \in 0..MaxTtl :
          /\ faq' = [faq EXCEPT !.cache = DictSet(faq.cache, Entry(q, a, now, ttl))]
          /\ writer' = [writer EXCEPT !.pc = "save", !.q = q, !.answer = a,
                                      !.ttl_days = ttl, !.calls = @ + 1]
          /\ reader' = IF reader.pc = "iterate" /\ reader.attached /\ ~HasKey(faq.cache, q)
                       THEN [reader EXCEPT !.resized = TRUE]
                       ELSE reader
    /\ ConcFrame

\* set, line 164: self._save_cache()
SetSave ==
    /\ writer.pc = "save"
    /\ faq' = save_cache(faq)
    /\ writer' = [writer EXCEPT !.pc = "load_cache"]
    /\ UNCHANGED reader
    /\ ConcFrame

\* _load_cache, line 45: self.cache = json.load(f), a new dict object
LoadCache ==
    /\ writer.pc = "load_cache"
    /\ faq' = [faq EXCEPT !.cache = faq.file]
    /\ writer' = [writer EXCEPT !.pc = "load_questions"]
    /\ reader' = IF reader.pc = "iterate" /\ reader.attached
                 THEN [reader EXCEPT !.attached = FALSE, !.items = faq.cache]
                 ELSE reader
    /\ ConcFrame

\* _load_cache, line 50: self.questions = list(self.cache.keys())
LoadQuestions ==
    /\ writer.pc = "load_questions"
    /\ faq' = [faq EXCEPT !.questions = Keys(faq.cache)]
    /\ writer' = [writer EXCEPT !.pc = IF use_st /\ Keys(faq.cache) # <<>>
                                       THEN "load_embeddings" ELSE "idle"]
    /\ UNCHANGED reader
    /\ ConcFrame

\* _load_cache, line 52: self.embeddings = self.model.encode(self.questions)
LoadEmbeddings ==
    /\ writer.pc = "load_embeddings"
    /\ faq' = [faq EXCEPT !.embeddings = [i \in 1..Len(faq.questions) |-> Encode(faq.questions[i])]]
    /\ writer' = [writer EXCEPT !.pc = "idle"]
    /\ UNCHANGED reader
    /\ ConcFrame

ReaderDone(result) == [reader EXCEPT !.pc = "idle", !.result = result]

\* get, lines 68-74
GetBegin ==
    /\ reader.pc = "idle"
    /\ reader.calls < MaxGets
    /\ \E q \in FaqQuestions :
          reader' = IF faq.questions = <<>>
                    THEN [IdleReader EXCEPT !.q = q, !.calls = reader.calls + 1]
                    ELSE IF use_st
                    THEN [IdleReader EXCEPT !.q = q, !.calls = reader.calls + 1,
                                            !.pc = "similarities"]
                    ELSE [IdleReader EXCEPT !.q = q, !.calls = reader.calls + 1,
                                            !.pc = "iterate", !.i = 1, !.attached = TRUE]
    /\ UNCHANGED <<faq, writer>>
    /\ ConcFrame

\* _get_with_embeddings, lines 79-90: reads self.embeddings
GetSimilarities ==
    /\ reader.pc = "similarities"
    /\ LET qe == Encode(reader.q)
           sims == [i \in 1..Len(faq.embeddings) |-> CosSim(faq.embeddings[i], qe)]
           max_idx == ArgMax(sims)
       IN  reader' = IF faq.embeddings = <<>> THEN ReaderDone(Raised("TypeError"))
                     ELSE IF ~CosAtLeast(sims[max_idx], SimilarityThresholdPct)
                     THEN ReaderDone(Miss)
                     ELSE [reader EXCEPT !.pc = "matched", !.max_idx = max_idx]
    /\ UNCHANGED <<faq, writer>>
    /\ ConcFrame

\* _get_with_embeddings, line 91: reads self.questions
GetMatched ==
    /\ reader.pc = "matched"
    /\ reader' = IF reader.max_idx > Len(faq.questions) THEN ReaderDone(Raised("IndexError"))
                 ELSE [reader EXCEPT !.pc = "lookup", !.matched = faq.questions[reader.max_idx]]
    /\ UNCHANGED <<faq, writer>>
    /\ ConcFrame

\* _get_with_embeddings, lines 92-108: reads self.cache; an expired entry is
\* deleted, saved and reloaded
GetLookup ==
    /\ reader.pc = "lookup"
    /\ IF ~HasKey(faq.cache, reader.matched)
       THEN reader' = ReaderDone(Raised("KeyError")) /\ UNCHANGED faq
       ELSE LET cached_data == faq.cache[IndexOf(faq.cache, reader.matched)] IN
            IF is_valid(cached_data, now)
            THEN reader' = ReaderDone(Hit(cached_data.answer)) /\ UNCHANGED faq
            ELSE /\ reader' = ReaderDone(Miss)
                 /\ faq' = load_cache(save_cache(
                               [faq EXCEPT !.cache = DictDel(faq.cache, reader.matched)]), TRUE)
    /\ UNCHANGED writer
    /\ ConcFrame

\* _get_with_string_match, lines 114-140: one turn of the loop over
\* self.cache.items()
GetIterate ==
    /\ reader.pc = "iterate"
    /\ LET d == IF reader.attached THEN faq.cache ELSE reader.items
           q_words == Range(reader.q)
       IN  IF reader.resized
           THEN reader' = ReaderDone(Raised("RuntimeError")) /\ UNCHANGED faq
           ELSE IF reader.i > Len(d)
           THEN reader' = ReaderDone(Miss) /\ UNCHANGED faq
           ELSE IF \/ q_words = {}
                   \/ Range(d[reader.i].q) = {}
                   \/ ~JaccardAtLeast(q_words, Range(d[reader.i].q), SimilarityThresholdPct)
           THEN reader' = [reader EXCEPT !.i = @ + 1] /\ UNCHANGED faq
           ELSE IF is_valid(d[reader.i], now)
           THEN reader' = ReaderDone(Hit(d[reader.i].answer)) /\ UNCHANGED faq
           ELSE IF ~HasKey(faq.cache, d[reader.i].q)
           THEN reader' = ReaderDone(Raised("KeyError")) /\ UNCHANGED faq
           ELSE /\ faq' = save_cache([faq EXCEPT !.cache = DictDel(faq.cache, d[reader.i].q)])
                /\ reader' = [reader EXCEPT !.i = @ + 1, !.resized = reader.attached]
    /\ UNCHANGED writer
    /\ ConcFrame

NextFAQConc ==
    \/ SetAssign
    \/ SetSave
    \/ LoadCache
    \/ LoadQuestions
    \/ LoadEmbeddings
    \/ GetBegin
    \/ GetSimilarities
    \/ GetMatched
    \/ GetLookup
    \/ GetIterate

SpecFAQConc == InitFAQConc /\ [][NextFAQConc]_vars

\* The entry map, the question list and the embedding matrix describe the same
\* questions.
IndexConsistent(c) ==
    /\ c.questions = Keys(c.cache)
    /\ (use_st /\ c.questions # <<>>)
           => c.embeddings = [i \in 1..Len(c.questions) |-> Encode(c.questions[i])]

\* C10: while a set and a get run concurrently, at every point the reader can
\* observe, the entry map, the question list and the embedding matrix describe
\* the same set of questions, and the get ends without an exception of a
\* mismatched index.
C10_ReaderSeesConsistentIndex ==
    /\ reader.pc # "idle" => IndexConsistent(faq)
    /\ reader.result.kind \in {"hit", "none"}

(* ================================================================== *)
(* Functions and handlers called on their own                         *)
(* ================================================================== *)
AnalysisOf(level) == [complexity |-> "simple", safety |-> level, latency_exceeded |-> FALSE]

HandEnvelope(level, copy) ==
    [level |-> level, banner_title |-> <<>>, banner_body |-> <<>>,
     escalation_copy |-> copy, answer_override |-> NoOverride]

GuardEnvelopes ==
    {build_safety_envelope(AnalysisOf(l)) : l \in SafetyLevel}
        \cup {HandEnvelope(l, c) :
                 l \in SafetyLevel,
                 c \in {<<"see-doctor">>, <<Blank, "see-doctor">>, <<"see-doctor", Blank>>,
                        <<Blank>>}}

GuardAnswers ==
    LET short == SeqsUpTo({"walk", ".", "see-doctor"}, MaxAnswerLen) IN
    short \cup {a \o EscalationCopy : a \in short}
          \cup {a \o EscalationSentenceKo : a \in short}

GuidanceCalls ==
    {[fn |-> "append_caution_guidance", answer |-> a, envelope |-> e] :
        a \in GuardAnswers, e \in GuardEnvelopes}

PureIdle ==
    /\ PipelineIdle
    /\ use_st = FALSE
    /\ now = 0
    /\ faq = EmptyFaq
    /\ faq_log = <<>>
    /\ writer = IdleWriter
    /\ reader = IdleReader

PureFrame ==
    UNCHANGED <<question, mode, llm_present, max_evidence, pc, st, trace, tasks, output,
                llm_calls, retriever_calls, faq, use_st, now, faq_log, writer, reader, call,
                monitor, heap, gather, index, stream>>

\* append_caution_guidance(answer, envelope)
ApplyGuidance ==
    /\ call.fn = "append_caution_guidance"
    /\ ret = NoRet
    /\ ret' = [fn |-> call.fn, applied |-> 1, first |-> <<>>,
               value |-> append_caution_guidance(call.answer, call.envelope)]
    /\ PureFrame

\* append_caution_guidance(append_caution_guidance(answer, envelope), envelope)
ApplyGuidanceAgain ==
    /\ call.fn = "append_caution_guidance"
    /\ ret.fn = call.fn
    /\ ret.applied = 1
    /\ ret' = [fn |-> call.fn, applied |-> 2, first |-> ret.value,
               value |-> append_caution_guidance(ret.value, call.envelope)]
    /\ PureFrame

\* build_safety_envelope(analysis)
ApplyBuildEnvelope ==
    /\ call.fn = "build_safety_envelope"
    /\ ret = NoRet
    /\ ret' = [fn |-> call.fn, value |-> build_safety_envelope(call.analysis)]
    /\ PureFrame

EnvelopeCalls ==
    {[fn |-> "build_safety_envelope", analysis |-> analyze(q, slow)] :
        q \in PipelineQuestions, slow \in BOOLEAN}

RetrieveFns ==
    {"VectorRetriever.retrieve", "VectorRetriever.retrieve_async",
     "GraphRetriever.retrieve", "GraphRetriever.retrieve_async"}

RetrieveCalls ==
    {[fn |-> f, limit |-> l, remote |-> r, rows |-> rows, local |-> local] :
        f \in RetrieveFns, l \in 0..MaxLimit, r \in RemoteOutcomes,
        rows \in ResultLists, local \in ResultLists}

\* retrieve / retrieve_async of either retriever
ApplyRetrieve ==
    /\ call.fn \in RetrieveFns
    /\ ret = NoRet
    /\ LET r == IF call.fn = "VectorRetriever.retrieve"
                THEN vector_retrieve_outcome(call.limit, call.remote, call.rows, call.local)
                ELSE IF call.fn = "VectorRetriever.retrieve_async"
                THEN vector_retrieve_async_outcome(call.limit, call.remote, call.rows,
                                                   call.local)
                ELSE IF call.fn = "GraphRetriever.retrieve"
                THEN graph_retrieve_outcome(call.limit, call.remote, call.rows, call.local)
                ELSE graph_retrieve_async_outcome(call.limit, call.remote, call.rows,
                                                  call.local)
       IN  ret' = [fn |-> call.fn, raised |-> r.raised, chunks |-> r.chunks]
    /\ PureFrame

ApiFns == {"POST /v1/retrieve", "POST /v1/retrieve/stream"}

ApiCalls ==
    {[fn |-> f, question |-> q] :
        f \in ApiFns, q \in SeqsUpTo({Blank, "walk", "med"}, MaxRawLen)}

\* RetrieveRequest.question has min_length=1
MinQuestionLength == 1

\* The request is turned away by the length check alone.
api_rejects_empty_only(raw) == Len(raw) < MinQuestionLength

\* The request is turned away: by the model's validation, or by the handler
\* when nothing is left of the question after strip().
api_rejects(raw) == Len(raw) < MinQuestionLength \/ Strip(raw) = <<>>

Rejected(f) ==
    [fn |-> f, status |-> 422, pipeline_invoked |-> FALSE, latency_recorded |-> FALSE,
     question |-> <<>>]

\* POST /v1/retrieve: pipeline.run may return an output or raise
ApiRetrieve ==
    /\ call.fn = "POST /v1/retrieve"
    /\ ret = NoRet
    /\ IF api_rejects(call.question)
       THEN ret' = Rejected(call.fn)
       ELSE \E ran \in {"output", "raises"} :
               ret' = [fn |-> call.fn,
                       status |-> IF ran = "output" THEN 200 ELSE 500,
                       pipeline_invoked |-> TRUE,
                       latency_recorded |-> (ran = "output"),
                       question |-> Strip(call.question)]
    /\ PureFrame

\* POST /v1/retrieve/stream: the response streams the nodes' updates, an error
\* of the pipeline becomes an event of the stream; no latency is recorded
ApiRetrieveStream ==
    /\ call.fn = "POST /v1/retrieve/stream"
    /\ ret = NoRet
    /\ ret' = IF api_rejects(call.question)
              THEN Rejected(call.fn)
              ELSE [fn |-> call.fn, status |-> 200, pipeline_invoked |-> TRUE,
                    latency_recorded |-> FALSE, question |-> Strip(call.question)]
    /\ PureFrame

\* QuestionAnalyzer(latency_budget).analyze(question): the measured time is a
\* multiple of half a second
AnalyzeQuestions ==
    {<<"walk">>, <<"risk">>, <<"med">>, <<"risk", "med">>, <<"sugar", "risk">>,
     <<"risk", "pain">>, <<"sugar">>}

ElapsedStepMs == 500

AnalyzeCalls ==
    {[fn |-> "analyze", question |-> q, latency_budget |-> b,
      safety_latency_budget |-> sb, elapsed |-> e] :
        q \in AnalyzeQuestions,
        b \in {NoBudget} \cup {<<x>> : x \in 0..MaxBudget},
        sb \in 0..MaxBudget,
        e \in 0..MaxElapsed}

ApplyAnalyze ==
    /\ call.fn = "analyze"
    /\ ret = NoRet
    /\ ret' = [fn |-> "analyze", raised |-> FALSE,
               result |-> analyze_timed(Strip(call.question),
                              analyzer_latency_budget(call.latency_budget,
                                                      call.safety_latency_budget),
                              call.elapsed * ElapsedStepMs)]
    /\ PureFrame

\* _select_strategy(analysis, question, context, mode): the complexity is the
\* analysis' field, whatever produced it
WalkWords(n) == [i \in 1..n |-> "walk"]

StrategyComplexities == {"simple", "multi-hop", "compound", "unknown"}

StrategyQuestions ==
    {<<"walk">>, <<"walk", "rel">>, <<"walk", "and">>, <<"rel", "and">>,
     <<"how?">>, <<"how?", "how?">>, <<"how?", "rel", "how?">>,
     <<Blank, "walk", Blank>>, WalkWords(20), WalkWords(21)}

StrategyCalls ==
    {[fn |-> "_select_strategy", complexity |-> c, question |-> q, mode |-> m] :
        c \in StrategyComplexities, q \in StrategyQuestions,
        m \in {"live", "preparation"}}

ApplySelectStrategy ==
    /\ call.fn = "_select_strategy"
    /\ ret = NoRet
    /\ ret' = [fn |-> "_select_strategy",
               strategy |-> select_strategy([complexity |-> call.complexity],
                                            call.question, call.mode)]
    /\ PureFrame

\* FAQCache.get(question, similarity_threshold) on a cache loaded from its
\* file, `today` days after the entries were stored
GetEntries ==
    {Entry(<<"walk">>, <<"faq-a">>, 0, ttl) : ttl \in 1..2}
        \cup {Entry(<<"walk", "risk">>, <<"faq-b">>, 0, ttl) : ttl \in 1..2}

GetFiles ==
    {<<>>} \cup {<<e>> : e \in GetEntries}
        \cup {p \in {<<e, f>> : e \in GetEntries, f \in GetEntries} : p[1].q # p[2].q}

GetThresholds == {50, SimilarityThresholdPct}

FaqGetCalls ==
    {[fn |-> "FAQCache.get", file |-> entries, use_st |-> u, question |-> q,
      threshold |-> t, today |-> d] :
        entries \in GetFiles, u \in BOOLEAN,
        q \in {<<"walk">>, <<"walk", "risk">>, <<"med">>},
        t \in GetThresholds, d \in 0..1}

ApplyFaqGet ==
    /\ call.fn = "FAQCache.get"
    /\ ret = NoRet
    /\ LET r == faq_get(Loaded(call.file, call.use_st), call.use_st, call.question,
                        call.threshold, call.today)
       IN  ret' = [fn |-> call.fn, result |-> r.result, c |-> r.c]
    /\ PureFrame

\* run(question, mode="live") from the point where the graph has returned its
\* final state: the classifier's level, the envelope the safety node built from
\* it, and the answer the synthesize node stored
SynthesizedAnswers ==
    {<<"advice", ".">>, <<"advice">>, <<"advice", "pii", ".">>, <<"pii">>,
     NoEvidenceMessage, <<"advice", "[c1]">>,
     <<"advice", ".">> \o EscalationCopy,
     EscalationCopy \o <<"advice", "pii">>,
     <<"advice", ".">> \o EscalationSentence}

RunTailCalls ==
    {[fn |-> "run", level |-> l, answer |-> a] :
        l \in {"clear", "caution"}, a \in SynthesizedAnswers}

FinalState(level, answer) ==
    [InitialState EXCEPT !.analysis = AnalysisOf(level),
                         !.safety = build_safety_envelope(AnalysisOf(level)),
                         !.answer = answer]

ApplyRunTail ==
    /\ call.fn = "run"
    /\ ret = NoRet
    /\ ret' = [fn |-> call.fn, output |-> run_output(FinalState(call.level, call.answer), "live")]
    /\ PureFrame

\* _decompose_question(question, analysis): the small LLM is absent, or replies
\* with a text of some lines (<<>>: an empty text)
DecomposeInputs ==
    {<<>>, <<Blank>>, <<"walk">>, <<"how?", "how?">>, <<"walk", "and", "rel">>,
     <<"how?", "walk", "how?", "rel", "how?", "med", "how?">>, <<"and">>, <<"how?">>}

DecomposeLineLists ==
    DecomposeReplies \cup {<< <<Blank>>, <<>> >>, << <<Blank, "walk", Blank>> >>}

DecomposeCalls ==
    {[fn |-> "_decompose_question", question |-> q, small_llm |-> TRUE, reply |-> r] :
        q \in DecomposeInputs, r \in DecomposeLineLists}
        \cup {[fn |-> "_decompose_question", question |-> q, small_llm |-> FALSE,
               reply |-> <<>>] : q \in DecomposeInputs}

\* str.splitlines() of a text that is one line, or empty
SplitLines(text) == IF text = <<>> THEN <<>> ELSE <<text>>

ApplyDecompose ==
    /\ call.fn = "_decompose_question"
    /\ ret = NoRet
    /\ ret' = [fn |-> call.fn,
               subquestions |->
                   decompose_question(call.question,
                                      IF call.small_llm THEN call.reply
                                      ELSE SplitLines(call.question))]
    /\ PureFrame

PureCalls ==
    DecomposeCalls \cup GuidanceCalls \cup EnvelopeCalls \cup RetrieveCalls \cup ApiCalls \cup AnalyzeCalls
        \cup StrategyCalls \cup FaqGetCalls \cup RunTailCalls

InitPure ==
    /\ PureIdle
    /\ call \in PureCalls
    /\ ret = NoRet
    /\ monitor = NewMonitor
    /\ heap = NewHeap
    /\ gather = NewGather
    /\ index = NewIndex
    /\ stream = NewStream

NextPure ==
    \/ ApplyGuidance
    \/ ApplyGuidanceAgain
    \/ ApplyBuildEnvelope
    \/ ApplyRetrieve
    \/ ApiRetrieve
    \/ ApiRetrieveStream
    \/ ApplyAnalyze
    \/ ApplySelectStrategy
    \/ ApplyFaqGet
    \/ ApplyRunTail
    \/ ApplyDecompose

SpecPure == InitPure /\ [][NextPure]_vars

C12_EnvelopeInvariants ==
    (call.fn = "build_safety_envelope" /\ ret.fn = call.fn)
        => LET e == ret.value IN
           /\ e.level = call.analysis.safety
           /\ e.level \in SafetyLevel
           /\ e.level = "escalate"
                  => /\ e.answer_override # NoOverride
                     /\ IsSubSeq(EscalationSentence, e.escalation_copy)
           /\ e.level = "caution"
                  => /\ e.answer_override = NoOverride
                     /\ e.escalation_copy # <<>>
           /\ e.level = "clear"
                  => /\ e.banner_title = <<>>
                     /\ e.banner_body = <<>>
                     /\ e.escalation_copy = <<>>
                     /\ e.answer_override = NoOverride

\* an envelope was built for an analysis escalated by the latency check alone
C12_Witness ==
    /\ call.fn = "build_safety_envelope"
    /\ ret.fn = call.fn
    /\ call.analysis.latency_exceeded
    /\ ret.value.level = "escalate"
    /\ ret.value.answer_override = OverrideText

\* C13: a live run of a question that is not escalated executes exactly one of
\* the vector, graph and decompose nodes, the one the strategy names, and then
\* the merge node and the synthesize node before it ends.
C13_OneRetrievalThenMergeSynthesize ==
    (Returned /\ mode = "live" /\ st.safety.level # "escalate")
        => /\ st.strategy \in {"vector", "graph", "decompose"}
           /\ trace = <<"analysis", "safety", "rewrite", st.strategy, "merge", "synthesize">>

\* C14: the timings of every output run() returns have the keys analysis, safety
\* and total, and a retrieval entry equal to retrieval_vector + retrieval_graph
\* (an absent one counted as 0) when no node recorded a retrieval stage itself.
C14_TimingsLedger ==
    Returned =>
        /\ {"analysis", "safety", "total", "retrieval"} \subseteq DOMAIN output.timings
        /\ (\A i \in 1..Len(st.timing_entries) : st.timing_entries[i][1] # "retrieval")
               => output.timings["retrieval"]
                      = TimingGet(output.timings, "retrieval_vector")
                            + TimingGet(output.timings, "retrieval_graph")

\* a graph retrieval that took two ticks, and no vector retrieval
C14_Witness ==
    /\ Returned
    /\ "retrieval_graph" \in DOMAIN output.timings
    /\ "retrieval_vector" \notin DOMAIN output.timings
    /\ output.timings["retrieval_graph"] = MaxDuration
    /\ output.timings["retrieval"] = MaxDuration

\* C15: retrieve and retrieve_async of the vector and the graph retriever do not
\* raise whatever the remote path does, and when the remote query raises or the
\* remote store is not configured they return what the local fallback returns.
C15_RemoteFailureFallsBack ==
    (call.fn \in RetrieveFns /\ ret.fn = call.fn)
        => /\ ~ret.raised
           /\ call.remote \in {"unconfigured", "raises"}
                  => ret.chunks = retrieve_from_cache(call.local, call.limit)

\* the remote query raised and the local cache answered with as many chunks as
\* the limit allows
C15_Witness ==
    /\ call.fn = "VectorRetriever.retrieve"
    /\ ret.fn = call.fn
    /\ call.remote = "raises"
    /\ call.limit = 1
    /\ Len(call.local) = 2
    /\ ret.chunks = <<call.local[1]>>

IsBlank(raw) == \A i \in 1..Len(raw) : raw[i] = Blank

\* C16: a question that is empty or all whitespace, posted to /v1/retrieve or to
\* /v1/retrieve/stream, is answered with status 422, the pipeline is not invoked
\* and no latency is recorded.
C16_BlankQuestionRejected ==
    (call.fn \in ApiFns /\ ret.fn = call.fn /\ IsBlank(call.question))
        => /\ ret.status = 422
           /\ ~ret.pipeline_invoked
           /\ ~ret.latency_recorded

\* a question of two blanks was posted to the streaming endpoint and rejected
C16_Witness ==
    /\ call.fn = "POST /v1/retrieve/stream"
    /\ ret.fn = call.fn
    /\ call.question = <<Blank, Blank>>
    /\ ret.status = 422

\* C17: when the synthesize node runs on an empty evidence list, the answer is
\* the fixed generic-guidance message, the citations are empty and no LLM call
\* is made by the step.
C17_EmptyEvidenceFixedMessage ==
    [][(pc = "synthesize" /\ st.evidence = <<>> /\ pc' # pc)
          => /\ st'.answer = NoEvidenceMessage
             /\ st'.citations = <<>>
             /\ llm_calls' = llm_calls
             /\ pc' = "finish"]_vars

\* the synthesize node has run with an LLM configured and an empty evidence list
C17_Witness ==
    /\ pc = "finish"
    /\ llm_present
    /\ trace # <<>>
    /\ trace[Len(trace)] = "synthesize"
    /\ st.evidence = <<>>
    /\ st.answer = NoEvidenceMessage

\* the budget the analyzer was configured with, in seconds: the constructor's
\* argument when one was given, else the settings' value
ConfiguredBudget ==
    IF call.latency_budget # NoBudget THEN call.latency_budget[1]
    ELSE call.safety_latency_budget

\* C18: for every configured latency budget, a classification that took longer
\* than the budget returns safety escalate with the reason 'Latency budget
\* exceeded' and does not fail; one that did not take longer returns exactly
\* the keyword-determined safety level.
C18_LatencyBudgetEscalates ==
    (call.fn = "analyze" /\ ret.fn = "analyze")
        => /\ ~ret.raised
           /\ call.elapsed * ElapsedStepMs > ConfiguredBudget * 1000
                  => /\ ret.result.safety = "escalate"
                     /\ "Latency budget exceeded" \in Range(ret.result.reasons)
           /\ call.elapsed * ElapsedStepMs <= ConfiguredBudget * 1000
                  => ret.result.safety = detect_safety(call.question)

\* the signals of the decision table, read off the call's question
HasRelationship == \E i \in 1..Len(call.question) : call.question[i] \in RelationshipWords

HasConnector == \E i \in 1..Len(call.question) : call.question[i] \in ConnectorWords

HasCompoundSignal ==
    \/ HasConnector
    \/ Cardinality({i \in 1..Len(call.question) : call.question[i] = "how?"}) >= 2
    \/ CharLen(Strip(call.question)) >= LongTextChars

\* the top-k of the simple vector case in the call's mode
SimpleVectorK == select_strategy([complexity |-> "simple"], <<"walk">>, call.mode).k

\* C19: _select_strategy returns the strategy of the decision table: simple with
\* a relationship keyword gives graph; simple without one but with a connector,
\* two or more '?' or long text gives decompose; simple with neither gives
\* vector; multi-hop with a relationship keyword or a connector gives graph;
\* multi-hop otherwise gives vector with a top-k wider than the simple case;
\* any other complexity gives decompose.
C19_StrategyDecisionTable ==
    (call.fn = "_select_strategy" /\ ret.fn = call.fn)
        => LET name == ret.strategy.name IN
           /\ (call.complexity = "simple" /\ HasRelationship) => name = "graph"
           /\ (call.complexity = "simple" /\ ~HasRelationship /\ HasCompoundSignal)
                  => name = "decompose"
           /\ (call.complexity = "simple" /\ ~HasRelationship /\ ~HasCompoundSignal)
                  => name = "vector"
           /\ (call.complexity = "multi-hop" /\ (HasRelationship \/ HasConnector))
                  => name = "graph"
           /\ (call.complexity = "multi-hop" /\ ~HasRelationship /\ ~HasConnector)
                  => name = "vector" /\ ret.strategy.k > SimpleVectorK
           /\ call.complexity \notin {"simple", "multi-hop"} => name = "decompose"

\* a simple question of 104 characters, without keyword, connector or '?', was
\* sent to decompose
C19_Witness ==
    /\ call.fn = "_select_strategy"
    /\ ret.fn = call.fn
    /\ call.complexity = "simple"
    /\ call.question = WalkWords(21)
    /\ ret.strategy.name = "decompose"

\* the analysis node has run on a question with two or more '?' and no
\* relationship keyword
AnalyzedTwoQuestionMarks ==
    /\ "analysis" \in Range(trace)
    /\ Cardinality({i \in 1..Len(question) : question[i] = "how?"}) >= 2
    /\ \A i \in 1..Len(question) : question[i] \notin RelationshipWords

DecomposesIntoAtMostThree ==
    /\ st.strategy = "decompose"
    /\ Len(tasks) <= 3
    /\ Len(st.subquestions) <= 3

\* C20 as stated: for every question with two or more '?' and no relationship
\* keyword the analysis node selects decompose and the run generates at most 3
\* sub-questions.
C20_TwoQuestionMarksDecompose == AnalyzedTwoQuestionMarks => DecomposesIntoAtMostThree

\* C20: for every question with two or more '?', no relationship keyword and
\* none of the classifier's multi-hop connectors, the analysis node selects
\* decompose and the run generates at most 3 sub-questions.
C20_CompoundDecomposes ==
    (AnalyzedTwoQuestionMarks /\ \A i \in 1..Len(question) : question[i] \notin MultiHopWords)
        => DecomposesIntoAtMostThree

\* a live run on a question of two '?' went through decompose and kept 3
\* sub-questions
C20_Witness ==
    /\ AnalyzedTwoQuestionMarks
    /\ question = <<"how?", "how?">>
    /\ "decompose" \in Range(trace)
    /\ Len(st.subquestions) = 3

\* the chunk_ids the tasks before task i returned
EarlierIds(i) ==
    {c \in ChunkIds : \E j \in 1..(i - 1) : \E k \in 1..Len(tasks[j].hits) :
                          tasks[j].hits[k].chunk_id = c}

\* task i returned a chunk that no earlier task returned
Contributes(i) ==
    \E k \in 1..Len(tasks[i].hits) : tasks[i].hits[k].chunk_id \notin EarlierIds(i)

\* C21: when the decompose node joins its tasks, every sub-question that
\* returned a chunk no earlier sub-question returned has a chunk of its own in
\* the deduplicated evidence, attributed to it and carrying the retrieval tag
\* its backend assigned.
C21_EverySourceRepresented ==
    [][(pc = "decompose_gather" /\ pc' = "synthesize")
          => \A i \in 1..Len(tasks) :
                Contributes(i)
                    => \E n \in 1..Len(st'.evidence) :
                          /\ st'.evidence[n].subquestion = tasks[i].subquestion
                          /\ st'.evidence[n].retrieval = tasks[i].retrieval
                          /\ \E k \in 1..Len(tasks[i].hits) :
                                tasks[i].hits[k].chunk_id = st'.evidence[n].chunk_id]_vars

(* ================================================================== *)
(* LatencyMonitor under concurrent request threads                    *)
(* ================================================================== *)
LatencyDurations == {0, 1, 2}

MonitorFrame ==
    UNCHANGED <<question, mode, llm_present, max_evidence, pc, st, trace, tasks, output,
                llm_calls, retriever_calls, faq, use_st, now, faq_log, writer, reader,
                call, ret, heap, gather, index, stream>>

InitMonitor ==
    /\ PureIdle
    /\ call = NoCall
    /\ ret = NoRet
    /\ monitor = NewMonitor
    /\ heap = NewHeap
    /\ gather = NewGather
    /\ index = NewIndex
    /\ stream = NewStream

\* record_latency(stage, duration) is called
RecordBegin(t) ==
    /\ monitor.pc[t] = "idle"
    /\ monitor.begun < MaxRecordCalls
    /\ \E d \in LatencyDurations :
          monitor' = [monitor EXCEPT !.pc[t] = "acquire", !.duration[t] = d,
                                     !.begun = @ + 1]
    /\ MonitorFrame

\* with self._lock:
RecordAcquire(t) ==
    /\ monitor.pc[t] = "acquire"
    /\ lock_free(monitor, t)
    /\ monitor' = [monitor EXCEPT !.pc[t] = "count", !.lock = t]
    /\ MonitorFrame

\* self.count += 1
RecordCount(t) ==
    /\ monitor.pc[t] = "count"
    /\ monitor' = [monitor EXCEPT !.pc[t] = "total", !.stats.count = @ + 1]
    /\ MonitorFrame

\* self.total += value
RecordTotal(t) ==
    /\ monitor.pc[t] = "total"
    /\ monitor' = [monitor EXCEPT !.pc[t] = "max", !.stats.total = @ + monitor.duration[t]]
    /\ MonitorFrame

\* if value > self.max_value: self.max_value = value
RecordMax(t) ==
    /\ monitor.pc[t] = "max"
    /\ monitor' = [monitor EXCEPT
                      !.pc[t] = "release",
                      !.stats.max_value =
                          IF monitor.duration[t] > @ THEN monitor.duration[t] ELSE @]
    /\ MonitorFrame

\* the end of the `with` block; record returns
RecordRelease(t) ==
    /\ monitor.pc[t] = "release"
    /\ monitor' = [monitor EXCEPT !.pc[t] = "idle",
                                  !.lock = IF @ = t THEN 0 ELSE @,
                                  !.recorded = Append(@, monitor.duration[t])]
    /\ MonitorFrame

\* latency_summary() is called
SnapshotBegin ==
    /\ monitor.pc[Snapshotter] = "idle"
    /\ monitor.snapshots < MaxSnapshots
    /\ monitor' = [monitor EXCEPT !.pc[Snapshotter] = "acquire", !.snapshots = @ + 1]
    /\ MonitorFrame

SnapshotAcquire ==
    /\ monitor.pc[Snapshotter] = "acquire"
    /\ lock_free(monitor, Snapshotter)
    /\ monitor' = [monitor EXCEPT !.pc[Snapshotter] = "read", !.lock = Snapshotter]
    /\ MonitorFrame

\* {stage: stats.summary() ...}, then the end of the `with` block
SnapshotRead ==
    /\ monitor.pc[Snapshotter] = "read"
    /\ monitor' = [monitor EXCEPT !.pc[Snapshotter] = "idle",
                                  !.lock = IF @ = Snapshotter THEN 0 ELSE @,
                                  !.snapshot = summary(monitor.stats)]
    /\ MonitorFrame

NextMonitor ==
    \/ \E t \in Recorders :
          \/ RecordBegin(t)
          \/ RecordAcquire(t)
          \/ RecordCount(t)
          \/ RecordTotal(t)
          \/ RecordMax(t)
          \/ RecordRelease(t)
    \/ SnapshotBegin
    \/ SnapshotAcquire
    \/ SnapshotRead

SpecMonitor == InitMonitor /\ [][NextMonitor]_vars

RECURSIVE SumOf(_)
SumOf(ds) == IF ds = <<>> THEN 0 ELSE Head(ds) + SumOf(Tail(ds))

RECURSIVE MaxOf(_)
MaxOf(ds) ==
    IF ds = <<>> THEN 0
    ELSE IF Head(ds) > MaxOf(Tail(ds)) THEN Head(ds) ELSE MaxOf(Tail(ds))

\* what a snapshot reports after exactly the calls ds
ReportOf(ds) ==
    [count |-> Len(ds),
     avg_ms |-> IF ds = <<>> THEN <<0, 1>> ELSE <<SumOf(ds) * 1000, Len(ds)>>,
     max_ms |-> MaxOf(ds) * 1000]

\* C22: a snapshot reports exactly a whole number of completed record calls,
\* and once n record calls have returned and no call is in progress the
\* stage's statistics are count n, total the sum and max the maximum of their
\* durations.
C22_NoLostLatencyUpdate ==
    /\ monitor.snapshot # NoSnapshot
           => \E n \in 0..Len(monitor.recorded) :
                 monitor.snapshot = ReportOf(SubSeq(monitor.recorded, 1, n))
    /\ (\A t \in Recorders : monitor.pc[t] = "idle")
           => /\ monitor.stats.count = Len(monitor.recorded)
              /\ monitor.stats.total = SumOf(monitor.recorded)
              /\ monitor.stats.max_value = MaxOf(monitor.recorded)
              /\ (monitor.pc[Snapshotter] = "read"
                      => summary(monitor.stats) = ReportOf(monitor.recorded))

\* three record calls have returned, of different durations, and a snapshot
\* was taken after the second
C22_Witness ==
    /\ Len(monitor.recorded) = 3
    /\ monitor.recorded[1] # monitor.recorded[2]
    /\ monitor.snapshot = ReportOf(SubSeq(monitor.recorded, 1, 2))
    /\ \A t \in Recorders : monitor.pc[t] = "idle"

\* the get call a step of SpecFAQ has just made
GetStep == reader'.calls = reader.calls + 1

LastGet == faq_log'[Len(faq_log')]

\* the entries as similar to the question as the threshold asks: with questions
\* of at most two words, those with the same words
SimilarEntries(q) == {i \in 1..Len(faq.cache) : Range(faq.cache[i].q) = Range(q)}

\* the entry get matches: the first similar one
MatchedIndex(q) == CHOOSE i \in SimilarEntries(q) : \A j \in SimilarEntries(q) : i <= j

MatchesExpired(q) ==
    /\ SimilarEntries(q) # {}
    /\ now - faq.cache[MatchedIndex(q)].cached_at >= faq.cache[MatchedIndex(q)].ttl_days

\* C23: a get that matches an entry whose TTL has elapsed returns None without
\* raising and leaves that entry absent from the entry map, the question index
\* and the cache file, with the embedding index and with the Jaccard match; a
\* get that matches no expired entry leaves the three unchanged.
C23_ExpiredEvictedOnRead ==
    [][GetStep =>
          IF MatchesExpired(LastGet.q)
          THEN LET key == faq.cache[MatchedIndex(LastGet.q)].q IN
               /\ LastGet.result = Miss
               /\ ~HasKey(faq'.cache, key)
               /\ \A i \in 1..Len(faq'.questions) : faq'.questions[i] # key
               /\ faq'.file # NoFile
               /\ ~HasKey(faq'.file, key)
          ELSE /\ faq'.cache = faq.cache
               /\ faq'.questions = faq.questions
               /\ faq'.file = faq.file]_vars

\* entry i of the call's cache is at least as similar to the call's question as
\* entry j: by cosine with the embedding index, by Jaccard without
AsSimilar(i, j) ==
    LET q == Range(call.question)
        a == Range(call.file[i].q)
        b == Range(call.file[j].q)
    IN  IF call.use_st
        THEN SimGeq(CosSim(a, q), CosSim(b, q))
        ELSE Cardinality(a \cap q) * Cardinality(b \cup q)
                 >= Cardinality(b \cap q) * Cardinality(a \cup q)

ReachesThreshold(i) ==
    LET q == Range(call.question)
        a == Range(call.file[i].q)
    IN  IF call.use_st THEN CosAtLeast(CosSim(a, q), call.threshold)
        ELSE 100 * Cardinality(a \cap q) >= call.threshold * Cardinality(a \cup q)

Unexpired(i) == call.today - call.file[i].cached_at < call.file[i].ttl_days

\* the cached questions of the highest similarity
BestMatches == {i \in 1..Len(call.file) : \A j \in 1..Len(call.file) : AsSimilar(i, j)}

\* C24: get returns, and what it returns is the answer of a cached question of
\* the highest similarity, which reaches the threshold and is unexpired; and it
\* returns an answer whenever the questions of the highest similarity reach the
\* threshold and are unexpired.
C24_BestMatchAnswer ==
    (call.fn = "FAQCache.get" /\ ret.fn = call.fn)
        => /\ ret.result.kind \in {"hit", "none"}
           /\ ret.result.kind = "hit"
                  => \E i \in BestMatches :
                        /\ ReachesThreshold(i)
                        /\ Unexpired(i)
                        /\ ret.result.answer = call.file[i].answer
           /\ (BestMatches # {} /\ \A i \in BestMatches : ReachesThreshold(i) /\ Unexpired(i))
                  => ret.result.kind = "hit"

\* how many times the text g occurs in the text a
Occurrences(g, a) ==
    Cardinality({k \in 0..(Len(a) - Len(g)) : \A i \in 1..Len(g) : a[k + i] = g[i]})

PrepOrder ==
    <<"analysis", "safety", "prep_analyze_patient", "prep_analyze_history",
      "prep_generate_questions", "prep_prepare_answers", "prep_delivery_examples",
      "prep_synthesize">>

\* C26: in preparation mode with a question the analysis did not escalate, the
\* nodes executed are analysis, safety and then the six prep_ nodes, each once and in
\* the graph's order; the node about to run is the next one of that order; no
\* live-mode node executes; and the run ends after prep_synthesize: an output
\* is returned only when all eight have run.
C26_PreparationSequence ==
    (mode = "preparation" /\ trace # <<>> /\ st.analysis.safety # "escalate")
        => /\ Len(trace) <= Len(PrepOrder)
           /\ \A i \in 1..Len(trace) : trace[i] = PrepOrder[i]
           /\ pc \in Range(PrepOrder) => pc = PrepOrder[Len(trace) + 1]
           /\ Returned => trace = PrepOrder
           /\ trace = PrepOrder => pc \in {"finish", "returned"}

C26_Witness ==
    /\ mode = "preparation"
    /\ st.analysis.safety = "caution"
    /\ llm_present
    /\ Returned
    /\ trace = PrepOrder
    /\ output.preparation_analysis.present

\* the stage name under which each node records itself; the decompose node
\* returns from the position decompose_gather
StageOf(node) ==
    CASE node = "vector" -> "retrieval_vector"
      [] node = "graph" -> "retrieval_graph"
      [] node = "synthesize" -> "synthesis"
      [] node = "decompose_gather" -> "decompose"
      [] node = "prep_analyze_patient" -> "prep_patient_analysis"
      [] node = "prep_analyze_history" -> "prep_history_analysis"
      [] node = "prep_generate_questions" -> "prep_question_generation"
      [] node = "prep_prepare_answers" -> "prep_answer_preparation"
      [] node = "prep_synthesize" -> "prep_synthesis"
      [] OTHER -> node

ReturningNodes ==
    (Range(PrepOrder) \cup {"rewrite", "vector", "graph", "merge", "synthesize",
                            "decompose_gather"})

NodeReturns(nodes) == pc \in nodes /\ pc' \notin {pc, "raised"}

AppendsOwnEntry ==
    /\ Len(st'.timing_entries) = Len(st.timing_entries) + 1
    /\ SubSeq(st'.timing_entries, 1, Len(st.timing_entries)) = st.timing_entries
    /\ st'.timing_entries[Len(st'.timing_entries)][1] = StageOf(pc)

\* C27: every node that executes leaves the timing ledger one entry longer, the
\* new entry carrying the node's own stage name, and the entries of the earlier
\* nodes are the same and in the same order as before.
C27_EveryNodeAppendsTiming ==
    [][NodeReturns(ReturningNodes) => AppendsOwnEntry]_vars

SafetyReasons == {"Escalate keyword hit", "Caution keyword hit", "No safety flags detected"}

SafetyReasonsOf(reasons) == {i \in 1..Len(reasons) : reasons[i] \in SafetyReasons}

\* C28: a question matching both tiers is classified escalate; caution is
\* returned only when the caution tier matches and the escalate tier does not;
\* clear only when neither tier matches; and the analysis records exactly one
\* safety reason, that of the first tier that matched.
C28_SafetyPrecedence ==
    (call.fn = "analyze" /\ ret.fn = call.fn)
        => LET text == Strip(call.question)
               r == ret.result
           IN  /\ HitsEscalate(text) => r.safety = "escalate"
               /\ r.safety = "caution" => (HitsCaution(text) /\ ~HitsEscalate(text))
               /\ r.safety = "clear" => (~HitsCaution(text) /\ ~HitsEscalate(text))
               /\ Cardinality(SafetyReasonsOf(r.reasons)) = 1
               /\ \A i \in SafetyReasonsOf(r.reasons) :
                     r.reasons[i] =
                         IF HitsEscalate(text) THEN "Escalate keyword hit"
                         ELSE IF HitsCaution(text) THEN "Caution keyword hit"
                         ELSE "No safety flags detected"

\* a question holding a caution keyword inside an escalate pattern was
\* classified escalate, within the latency budget
C28_Witness ==
    /\ call.fn = "analyze"
    /\ ret.fn = call.fn
    /\ call.question = <<"sugar", "risk">>
    /\ ret.result.safety = "escalate"
    /\ Len(ret.result.reasons) = 3
    /\ ret.result.reasons[3] = "Escalate keyword hit"

PassesThrough == st'.rewritten_question = question

\* C29: the rewrite step never ends by raising; for the vector strategy it
\* invokes no LLM and returns the question; for the other strategies it returns
\* the question whenever the LLM is absent, raises, or replies with an empty or
\* prompt-echoing text (so what it returns is never empty and never an echo).
C29_RewriterNeverRaises ==
    [][pc = "rewrite"
          => /\ pc' # "raised"
             /\ st.strategy = "vector" => (llm_calls' = llm_calls /\ PassesThrough)
             /\ ~llm_present => PassesThrough
             /\ (st'.rewritten_question = <<>>
                    \/ ContainsAny(st'.rewritten_question, EchoWords)) => PassesThrough]_vars

(* ================================================================== *)
(* Successive retrieval calls on the retrievers' shared Chunk objects *)
(* ================================================================== *)
HeapFrame ==
    UNCHANGED <<question, mode, llm_present, max_evidence, pc, st, trace, tasks, output,
                llm_calls, retriever_calls, faq, use_st, now, faq_log, writer, reader,
                call, ret, monitor, gather, index, stream>>

InitHeap ==
    /\ PureIdle
    /\ call = NoCall
    /\ ret = NoRet
    /\ monitor = NewMonitor
    /\ gather = NewGather
    /\ index = NewIndex
    /\ stream = NewStream
    /\ \E e \in [1..2 -> BOOLEAN] :
          heap = [NewHeap EXCEPT !.objects =
                     [a \in 1..2 |-> [NewHeap.objects[a] EXCEPT !.embedding = e[a]]]]

\* rows of the vector table (LIMIT cuts them to the limit) and episodes of the
\* graph, with the score the backend gave each; "c3" is a chunk the retrievers'
\* caches do not hold
RemoteRows ==
    {<<>>,
     <<[chunk_id |-> "c1", score |-> 2]>>,
     <<[chunk_id |-> "c3", score |-> 1], [chunk_id |-> "c1", score |-> 1]>>,
     <<[chunk_id |-> "c2", score |-> 1], [chunk_id |-> "c2", score |-> 2]>>}

\* VectorRetriever.retrieve(query, limit) with a positive limit
VectorRetrieve ==
    /\ Len(heap.returned) < MaxRetrievals
    /\ \E limit \in 1..MaxLimit, remote \in RemoteOutcomes, rows \in RemoteRows,
          scores \in [1..Len(heap.vector_chunks) -> 1..2] :
          heap' = IF remote = "rows" /\ rows # <<>>
                  THEN vector_retrieve_from_database(heap, Take(rows, limit))
                  ELSE vector_retrieve_from_cache(heap, scores, limit)
    /\ HeapFrame

\* GraphRetriever.retrieve(query, limit)
GraphRetrieve ==
    /\ Len(heap.returned) < MaxRetrievals
    /\ \E limit \in 1..MaxLimit, remote \in RemoteOutcomes, rows \in RemoteRows,
          scores \in [1..Len(heap.graph_chunks) -> 0..1] :
          LET found == search_graphiti(heap, rows, limit) IN
          heap' = IF remote = "rows" /\ found.returned[Len(found.returned)] # <<>>
                  THEN found
                  ELSE graph_retrieve_from_cache(heap, scores, limit)
    /\ HeapFrame

NextHeap == VectorRetrieve \/ GraphRetrieve

SpecHeap == InitHeap /\ [][NextHeap]_vars

Cached(h) == Range(h.vector_chunks) \cup Range(h.graph_chunks)

ScoreAndMetadata(obj) == <<obj.has_score, obj.score, obj.retrieval>>

LastReturned(h) == h.returned[Len(h.returned)]

\* C30: a retrieval call leaves the score and the metadata of every Chunk
\* object that existed before it as they were, the cached ones and the ones
\* earlier calls returned; the chunks it returns are objects created by this
\* call, distinct from each other and from every cached chunk, each with a
\* score and a metadata.retrieval tag.
C30_RetrievalCopiesChunks ==
    [][Len(heap'.returned) = Len(heap.returned) + 1
          => /\ \A a \in 1..Len(heap.objects) :
                   ScoreAndMetadata(heap'.objects[a]) = ScoreAndMetadata(heap.objects[a])
             /\ \A a \in Cached(heap') : ~heap'.objects[a].has_score
             /\ SubSeq(heap'.returned, 1, Len(heap.returned)) = heap.returned
             /\ LET new == LastReturned(heap') IN
                /\ \A k \in 1..Len(new) :
                      /\ new[k] > Len(heap.objects)
                      /\ new[k] \notin Cached(heap')
                      /\ heap'.objects[new[k]].has_score
                      /\ heap'.objects[new[k]].retrieval \in {"vector", "keyword", "graphiti"}
                /\ \A j, k \in 1..Len(new) : new[j] = new[k] => j = k]_vars

\* two calls returned the same cached chunk with different scores and tags,
\* and the cached chunk has neither
C30_Witness ==
    /\ Len(heap.returned) = 2
    /\ heap.returned[1] # <<>>
    /\ heap.returned[2] # <<>>
    /\ LET first == heap.objects[heap.returned[1][1]]
           second == heap.objects[heap.returned[2][1]]
       IN  /\ first.chunk_id = "c1"
           /\ second.chunk_id = "c1"
           /\ first.score # second.score
           /\ first.retrieval = "vector"
           /\ second.retrieval = "keyword"
    /\ ~heap.objects[1].has_score
    /\ heap.objects[1].retrieval = ""

\* C31: for every question and every LLM output, empty and multi-line ones
\* included, _decompose_question returns at least 1 and at most 3
\* sub-questions.
C31_OneToThreeSubquestions ==
    (call.fn = "_decompose_question" /\ ret.fn = call.fn)
        => /\ Len(ret.subquestions) >= 1
           /\ Len(ret.subquestions) <= MaxSubquestions

\* an LLM reply of four non-empty lines was cut to three sub-questions
C31_Witness ==
    /\ call.fn = "_decompose_question"
    /\ ret.fn = call.fn
    /\ call.reply = << <<"walk">>, <<>>, <<"rel">>, <<"how?">>, <<"med">> >>
    /\ ret.subquestions = << <<"walk">>, <<"rel">>, <<"how?">> >>

\* the parts into which "?" or a connector splits the question, when there are
\* two or more non-empty ones
SeparatedParts(q) == heuristic_split(q)

\* C32: with no LLM, a question in which "?" or a connector token separates two
\* or more non-empty parts is decomposed into those parts, at most three of
\* them, and not into the single whole question.
C32_NoLlmHeuristicSplit ==
    (call.fn = "_decompose_question" /\ ret.fn = call.fn /\ ~call.small_llm
        /\ Len(SeparatedParts(call.question)) >= 2)
        => /\ ret.subquestions = Take(SeparatedParts(call.question), MaxSubquestions)
           /\ ret.subquestions # <<call.question>>

\* the metadata["retrieval"] tags each backend puts on its chunks
TagsOf(kind) == IF kind = "graph" THEN {"graphiti", "keyword"} ELSE {"vector"}

OtherBackend(kind) == IF kind = "graph" THEN "vector" ELSE "graph"

\* C33: each retrieval step of the decompose stage queries one backend for one
\* sub-question.  The first query of a sub-question goes to its primary
\* backend (graph when the sub-question is graph-leaning, else vector); the
\* other backend is queried afterwards exactly when the primary returned
\* nothing; so the hits kept for a sub-question carry one backend's tag: the
\* primary's when it returned something, the other's otherwise.
C33_PrimaryThenFallbackOnEmpty ==
    [][(pc = "decompose_gather" /\ tasks' # tasks /\ pc' = pc)
          => /\ retriever_calls' = retriever_calls + 1
             /\ Len(tasks') = Len(tasks)
             /\ \E i \in 1..Len(tasks) :
                   /\ \A j \in 1..Len(tasks) : j # i => tasks'[j] = tasks[j]
                   /\ tasks[i].search_type = determine_question_type(tasks[i].subquestion)
                   /\ tasks'[i].search_type = tasks[i].search_type
                   /\ \/ /\ tasks[i].status = "primary"
                         /\ tasks'[i].status = "done"
                         /\ tasks'[i].hits # <<>>
                         /\ tasks'[i].retrieval \in TagsOf(tasks[i].search_type)
                      \/ /\ tasks[i].status = "primary"
                         /\ tasks'[i].status = "fallback"
                         /\ tasks'[i].hits = <<>>
                      \/ /\ tasks[i].status = "fallback"
                         /\ tasks[i].hits = <<>>
                         /\ tasks'[i].status = "done"
                         /\ tasks'[i].retrieval
                                \in TagsOf(OtherBackend(tasks[i].search_type))]_vars

\* a graph-leaning sub-question whose graph query returned nothing holds hits
\* of the vector backend, next to a sub-question answered by its primary
C33_Witness ==
    /\ pc = "decompose_gather"
    /\ Len(tasks) >= 2
    /\ \E i, j \in 1..Len(tasks) :
          /\ tasks[i].search_type = "graph"
          /\ tasks[i].status = "done"
          /\ tasks[i].retrieval = "vector"
          /\ tasks[i].hits # <<>>
          /\ tasks[j].search_type = "vector"
          /\ tasks[j].status = "done"
          /\ tasks[j].retrieval = "vector"
          /\ tasks[j].hits # <<>>
    /\ retriever_calls = 3

(* ================================================================== *)
(* The decompose stage's fan-out with failing retrieval tasks          *)
(* gather.path: "parallel" is asyncio.run(_retrieve_parallel()),      *)
(* "retry" the same after nest_asyncio.apply(), "sequential" is       *)
(* _retrieve_sequential; gather.completed lists the tasks in the      *)
(* order in which they completed.                                     *)
(* ================================================================== *)
GatherSubquestions ==
    {<< <<"walk">> >>, << <<"walk">>, <<"rel">> >>, << <<"rel">>, <<"walk">>, <<"how">> >>}

\* what a retriever's local path can raise: the embedding provider's
\* RuntimeError, or an error of its client
RetrievalErrors == {"RuntimeError", "ConnectionError"}

\* asyncio.run raises RuntimeError at once inside a running event loop, so a
\* stage may start on any of the three paths
InitGather ==
    /\ use_st = FALSE
    /\ now = 0
    /\ faq = Loaded(<<>>, FALSE)
    /\ faq_log = <<>>
    /\ writer = IdleWriter
    /\ reader = IdleReader
    /\ call = NoCall
    /\ ret = NoRet
    /\ monitor = NewMonitor
    /\ heap = NewHeap
    /\ index = NewIndex
    /\ stream = NewStream
    /\ \E subquestions \in GatherSubquestions, cap \in 1..MaxEvidenceBound,
          path \in {"parallel", "retry", "sequential"} :
          /\ pc = "decompose_gather"
          /\ question = <<"walk", "and", "rel">>
          /\ max_evidence = cap
          /\ st = [InitialState EXCEPT !.strategy = "decompose", !.strategy_k = 5]
          /\ trace = <<"analysis", "safety", "rewrite", "decompose">>
          /\ tasks = NewTasks(subquestions)
          /\ gather = [NewGather EXCEPT !.path = path]
    /\ mode = "live"
    /\ llm_present = FALSE
    /\ output = NoOutput
    /\ llm_calls = 0
    /\ retriever_calls = 0

\* the loop of _retrieve_sequential takes the sub-questions one after the other
InTurn(i) ==
    gather.path = "sequential" => \A j \in 1..(i - 1) : tasks[j].status = "done"

Completed(i) ==
    gather' = IF tasks'[i].status = "done"
              THEN [gather EXCEPT !.completed = Append(@, i)]
              ELSE gather

GatherPrimary(i) == InTurn(i) /\ TaskPrimaryStep(i) /\ Completed(i) /\ TaskFrame

GatherFallback(i) == InTurn(i) /\ TaskFallbackStep(i) /\ Completed(i) /\ TaskFrame

\* A retrieval call of task i raises e.  Neither _retrieve_with_fallback nor
\* _retrieve_sequential catches it.  On the parallel path asyncio.gather
\* passes it on to asyncio.run: a RuntimeError reaches `except RuntimeError`,
\* which runs all tasks again (after nest_asyncio.apply(), or sequentially when
\* the import fails); anything else leaves the node.  On the retry path every
\* exception leads to the sequential loop; an exception of that loop leaves
\* the node.
GatherTaskFails(i) ==
    /\ pc = "decompose_gather"
    /\ tasks[i].status \in {"primary", "fallback"}
    /\ InTurn(i)
    /\ retriever_calls' = retriever_calls + 1
    /\ \E e \in RetrievalErrors, nest_asyncio \in BOOLEAN :
          IF gather.path = "sequential" \/ (gather.path = "parallel" /\ e # "RuntimeError")
          THEN /\ pc' = "raised"
               /\ output' = Exception(e)
               /\ gather' = [gather EXCEPT !.failures = @ + 1]
               /\ UNCHANGED tasks
          ELSE /\ tasks' = NewTasks([j \in 1..Len(tasks) |-> tasks[j].subquestion])
               /\ gather' = [path |-> IF gather.path = "parallel" /\ nest_asyncio
                                      THEN "retry" ELSE "sequential",
                             completed |-> <<>>,
                             failures |-> gather.failures + 1]
               /\ UNCHANGED <<pc, output>>
    /\ UNCHANGED <<st, trace, llm_calls>>
    /\ TaskFrame

GatherJoin ==
    /\ NodeDecomposeJoinStep(gather.completed)
    /\ UNCHANGED gather
    /\ TaskFrame

NextGather ==
    \/ \E i \in 1..Len(tasks) : GatherPrimary(i)
    \/ \E i \in 1..Len(tasks) : GatherFallback(i)
    \/ \E i \in 1..Len(tasks) : GatherTaskFails(i)
    \/ GatherJoin

SpecGather == InitGather /\ [][NextGather]_vars

TaskFailed == gather'.failures = gather.failures + 1

StageJoins == pc = "decompose_gather" /\ pc' = "synthesize"

NoSharedChunkId(evidence) ==
    \A m, n \in 1..Len(evidence) : evidence[m].chunk_id = evidence[n].chunk_id => m = n

\* the chunk ids of all tasks' hits, each once, in the order in which `order`
\* lists the tasks
FirstOccurrences(order) ==
    LET all == Flatten([k \in 1..Len(order) |-> tasks[order[k]]]) IN
    DedupCap(all, {}, <<>>, Len(all) + 1)

\* C35 as stated: the evidence of the decompose stage has no chunk_id twice,
\* and each chunk is the first occurrence of its id when the tasks' results
\* are taken in the order in which the tasks completed.
C35_FirstOccurrenceInCompletionOrder ==
    [][StageJoins
          => /\ NoSharedChunkId(st'.evidence)
             /\ st'.evidence = Take(FirstOccurrences(gather.completed), max_evidence)]_vars

\* C35 amended: the evidence of the decompose stage has no chunk_id twice, and
\* each chunk is the first occurrence of its id when the tasks' results are
\* taken in the order of the sub-questions, whatever the order in which the
\* tasks completed.
C35_FirstOccurrenceInTaskOrder ==
    [][StageJoins
          => /\ NoSharedChunkId(st'.evidence)
             /\ st'.evidence =
                    Take(FirstOccurrences([i \in 1..Len(tasks) |-> i]), max_evidence)]_vars

\* the second sub-question's task completed first, both tasks found chunk c1,
\* and the evidence holds c1 as the first sub-question's chunk
C35_Witness ==
    /\ pc = "synthesize"
    /\ gather.path = "parallel"
    /\ Len(gather.completed) = 2
    /\ gather.completed[1] = 2
    /\ Len(st.subquestions) = 2
    /\ \E n \in 1..Len(st.evidence) :
          /\ st.evidence[n].chunk_id = "c1"
          /\ st.evidence[n].subquestion = st.subquestions[1]
          /\ st.evidence[n].retrieval = "vector"
    /\ \E n \in 1..Len(st.evidence) : st.evidence[n].retrieval # "vector"

\* C36: after the synthesize node, for non-empty evidence and whatever the LLM
\* replied, every citation marker of the citations list occurs literally in
\* the answer text.
C36_EveryCitationInAnswer ==
    (pc = "finish" /\ trace # <<>> /\ trace[Len(trace)] = "synthesize"
        /\ has_evidence(st.evidence))
        => /\ st.citations = Citations(st.evidence)
           /\ \A i \in 1..Len(st.citations) : ContainsAny(st.answer, {st.citations[i]})

(* ================================================================== *)
(* Concurrent _retrieve_from_cache calls on one VectorRetriever        *)
(* ================================================================== *)
IndexFrame ==
    UNCHANGED <<question, mode, llm_present, max_evidence, pc, st, trace, tasks, output,
                llm_calls, retriever_calls, faq, use_st, now, faq_log, writer, reader,
                call, ret, monitor, heap, gather, stream>>

InitIndex ==
    /\ PureIdle
    /\ call = NoCall
    /\ ret = NoRet
    /\ monitor = NewMonitor
    /\ heap = NewHeap
    /\ gather = NewGather
    /\ index = NewIndex
    /\ stream = NewStream

\* _cached_vectors entered by worker t: the test of self._local_vectors
CachedVectorsEnter(t) ==
    /\ index.pc[t] = "idle"
    /\ index.begun < MaxIndexCalls
    /\ LET d == index_decided(index, t) IN
       /\ index' = IF d = "return"
                   THEN [index EXCEPT !.begun = @ + 1,
                                      !.got = Append(@, index.local_vectors)]
                   ELSE [index EXCEPT !.begun = @ + 1, !.pc[t] = "build",
                                      !.vectors[t] = <<>>]
    /\ IndexFrame

\* one round of `for chunk in self._chunks`: the next chunk's vector appended
CachedVectorsEmbed(t) ==
    /\ index.pc[t] = "build"
    /\ Len(index.vectors[t]) < CachedChunkCount
    /\ index' = [index EXCEPT !.vectors[t] = Append(@, Len(@) + 1)]
    /\ IndexFrame

\* self._local_vectors = vectors; return vectors
CachedVectorsStore(t) ==
    /\ index.pc[t] = "build"
    /\ Len(index.vectors[t]) = CachedChunkCount
    /\ index' = [index EXCEPT !.local_vectors = index.vectors[t],
                              !.builds = @ + 1,
                              !.pc[t] = "idle",
                              !.got = Append(@, index.vectors[t])]
    /\ IndexFrame

NextIndex ==
    \/ \E t \in Workers : CachedVectorsEnter(t)
    \/ \E t \in Workers : CachedVectorsEmbed(t)
    \/ \E t \in Workers : CachedVectorsStore(t)

SpecIndex == InitIndex /\ [][NextIndex]_vars

\* C37: with several retrievals inside _cached_vectors before the index
\* exists, the index is built at most once, and every retrieval gets the
\* complete index, never a partly built one.
C37_IndexBuiltOnce ==
    /\ index.builds <= 1
    /\ \A k \in 1..Len(index.got) : Len(index.got[k]) = CachedChunkCount
    /\ index.local_vectors # <<>> => Len(index.local_vectors) = CachedChunkCount

(* ================================================================== *)
(* A preparation-mode run with as many question lines as the LLM gives *)
(* ================================================================== *)
InitPrep ==
    /\ Init
    /\ mode = "preparation"
    /\ question \in {<<"walk">>, <<"med">>, <<"risk">>}

\* the question-generation node with a reply of up to MaxPrepLines lines
PrepGenerateLines == PrepGenerateQuestionsUpTo(MaxPrepLines)

NextPrep ==
    \/ RunCall
    \/ NodeAnalysis
    \/ NodeSafety
    \/ PrepAnalyzePatient
    \/ PrepAnalyzeHistory
    \/ PrepGenerateLines
    \/ PrepPrepareAnswers
    \/ PrepDeliveryExamples
    \/ PrepSynthesize
    \/ RunFinish

SpecPrep == InitPrep /\ [][NextPrep]_vars

\* the prepare-answers node returned its update: its stage is in the ledger
PrepareAnswersReturned ==
    \E i \in 1..Len(st.timing_entries) : st.timing_entries[i][1] = "prep_answer_preparation"

\* C38: in preparation mode, once the prepare-answers node has returned there is
\* exactly one ExpectedQuestion per generated question, at most five, in the
\* order the questions were generated whatever order the tasks finished in;
\* and the run returns them in preparation_analysis with an empty answer, no
\* citations and no evidence.
C38_ExpectedQuestionsInGeneratedOrder ==
    /\ (mode = "preparation" /\ PrepareAnswersReturned) => /\ Len(st.expected_questions) = Len(st.expected_questions_text)
           /\ Len(st.expected_questions) <= ExpectedQuestionsCap
           /\ \A i \in 1..Len(st.expected_questions) :
                 st.expected_questions[i].question = st.expected_questions_text[i]
    /\ (mode = "preparation" /\ Returned /\ trace = PrepOrder)
        => /\ output.preparation_analysis.present
           /\ output.preparation_analysis.expected_questions = st.expected_questions
           /\ output.answer = <<>>
           /\ output.citations = <<>>
           /\ output.evidence = <<>>

\* a returned preparation run whose LLM gave more lines than the cap
C38_Witness ==
    /\ mode = "preparation"
    /\ llm_present
    /\ Returned
    /\ trace = PrepOrder
    /\ Len(output.preparation_analysis.expected_questions) = ExpectedQuestionsCap
    /\ output.preparation_analysis.expected_questions[2].question = 2

(* ================================================================== *)
(* POST /v1/retrieve/stream: event_generator over pipeline.stream()    *)
(* ================================================================== *)
InitStream ==
    /\ Init
    /\ max_evidence = 1
    /\ ~use_st
    /\ now = 0

\* the nodes that returned an update; a node that raised is the last of trace
ReturnedNodes == IF pc = "raised" THEN SubSeq(trace, 1, Len(trace) - 1) ELSE trace

NodeUpdates ==
    SelectSeq(stream.events, LAMBDA e : e.type = "node_update")

\* the generator runs the graph's next node only when the chunk of the
\* previous one has been taken
AllYielded == stream.status = "open" /\ Len(NodeUpdates) = Len(ReturnedNodes)

StreamFrame ==
    UNCHANGED <<question, mode, llm_present, max_evidence, pc, st, trace, tasks, output,
                llm_calls, retriever_calls, faq, use_st, now, faq_log, writer, reader,
                call, ret, monitor, heap, gather, index>>

\* retrieve_stream and pipeline.stream up to self._graph.stream(initial_state)
StreamCall ==
    /\ pc = "call"
    /\ stream.status = "idle"
    /\ pc' = "analysis"
    /\ stream' = [stream EXCEPT !.status = "open"]
    /\ UNCHANGED <<question, mode, llm_present, max_evidence, st, trace, tasks, output,
                   llm_calls, retriever_calls, faq, use_st, now, faq_log, writer, reader,
                   call, ret, monitor, heap, gather, index>>

\* one node of the graph inside self._graph.stream
StreamNode ==
    /\ AllYielded
    /\ \/ NodeAnalysis
       \/ NodeSafety
       \/ NodeRewrite
       \/ NodeVector
       \/ NodeGraph
       \/ NodeDecomposeStart
       \/ \E i \in 1..Len(tasks) : TaskPrimary(i)
       \/ \E i \in 1..Len(tasks) : TaskFallback(i)
       \/ NodeDecomposeJoin
       \/ NodeMerge
       \/ NodeSynthesize
       \/ PrepAnalyzePatient
       \/ PrepAnalyzeHistory
       \/ PrepGenerateQuestions
       \/ PrepPrepareAnswers
       \/ PrepDeliveryExamples
       \/ PrepSynthesize

\* `for node_name, node_output in chunk.items()`: the node_update event
StreamYield ==
    /\ stream.status = "open"
    /\ Len(NodeUpdates) < Len(ReturnedNodes)
    /\ stream' = [stream EXCEPT !.events =
                     Append(@, [type |-> "node_update",
                                node |-> ReturnedNodes[Len(NodeUpdates) + 1]])]
    /\ StreamFrame

\* the graph is exhausted: the completion event
StreamComplete ==
    /\ AllYielded
    /\ pc = "finish"
    /\ stream' = [status |-> "closed",
                  events |-> Append(stream.events, [type |-> "complete", node |-> ""])]
    /\ StreamFrame

\* `except Exception as e`: the error event
StreamError ==
    /\ AllYielded
    /\ pc = "raised"
    /\ stream' = [status |-> "closed",
                  events |-> Append(stream.events, [type |-> "error", node |-> ""])]
    /\ StreamFrame

NextStream ==
    \/ StreamCall
    \/ StreamNode
    \/ StreamYield
    \/ StreamComplete
    \/ StreamError

SpecStream == InitStream /\ [][NextStream]_vars

\* run() with the same question and mode returns the cached FAQ answer before
\* it invokes the graph: it executes no node
RunAnswersFromCache ==
    /\ mode = "live"
    /\ LET r == faq_get(faq, use_st, question, SimilarityThresholdPct, now) IN
       r.result.kind = "hit" /\ r.result.answer # <<>>

\* one node_update per node that returned, in execution order, then exactly
\* one terminal event
StreamEventsWellFormed ==
    stream.status = "closed" =>
        /\ Len(stream.events) = Len(ReturnedNodes) + 1
        /\ \A i \in 1..Len(ReturnedNodes) :
              stream.events[i] = [type |-> "node_update", node |-> ReturnedNodes[i]]
        /\ stream.events[Len(stream.events)].type
              = (IF pc = "raised" THEN "error" ELSE "complete")

\* C39: the streaming variant emits one node_update per executed node in
\* execution order and then exactly one terminal event (complete, or error if
\* a node raised), and it executes the node sequence that run() executes for
\* the same question and mode: none when run() answers from the FAQ cache.
C39_StreamMatchesRun ==
    /\ StreamEventsWellFormed
    /\ (stream.status = "closed" /\ RunAnswersFromCache) => trace = <<>>

====
